---------------------------- MODULE Spec2Model ----------------------------
(***************************************************************************)
(* Evidence resolution and text normalisation of the LRRIT framework       *)
(* (src/src/lrrit_llm/evidence/resolve.py), the table extraction of its    *)
(* ingestion (src/src/lrrit_llm/ingest/pdf_tables.py) and the page         *)
(* enrichment of its scoring agents (src/src/lrrit_llm/agents).            *)
(*                                                                         *)
(* A string is a sequence of characters; a character is one of the names   *)
(* in Char.  Characters outside ASCII and the control characters carry     *)
(* symbolic names:                                                         *)
(*   SP  U+0020 space        LF  U+000A      CR  U+000D      TAB U+0009    *)
(*   NBSP U+00A0             HY  U+002D hyphen-minus                       *)
(*   U2010 hyphen            U2011 non-breaking hyphen    U2013 en dash    *)
(*   DQ  U+0022 "            SQ  U+0027 '                                  *)
(*   LDQ U+201C  RDQ U+201D  LOW9DQ U+201E  REV9DQ U+201F                  *)
(*   LSQ U+2018  RSQ U+2019  LOW9SQ U+201A  REV9SQ U+201B                  *)
(*   FWA U+FF21 fullwidth A  FWa U+FF41 fullwidth a      DOT U+002E        *)
(***************************************************************************)
EXTENDS Integers, Sequences, FiniteSets, TLC

VARIABLES
    nIn,        \* _norm_for_match: the argument s
    nOut,       \* _norm_for_match: the value returned for nIn
    nOut2,      \* _norm_for_match: the value returned for nOut
    nPc,        \* "idle" | "in" | "once" | "twice"
    pack,       \* the EvidencePack: [text_chunks, tables]
    evidence_id,\* resolve_evidence_id_and_page: argument evidence_id
    quote,      \* resolve_evidence_id_and_page: argument quote
    result,     \* resolve_evidence_id_and_page: the pair returned
    rPc,        \* "idle" | "ready" | "returned"
    calls,      \* concurrent resolver calls: call -> its frame (locals)
    gIn,        \* _fix_table_grid: the argument grid
    gHeader,    \* _fix_table_grid: the header returned
    gRows,      \* _fix_table_grid: the body rows returned
    gPc,        \* "idle" | "in" | "fixed"
    sIn,        \* _merge_continuation_rows: the argument body
    sOut,       \* _merge_continuation_rows: the list returned
    sPc,        \* "idle" | "in" | "out"
    doc,        \* extract_tables_from_pdf: the tables of the pages, in page order
    last_header_by_sig, \* extract_tables_from_pdf: signature -> header
    last_row_by_sig,    \* extract_tables_from_pdf: signature -> row
    tables_out, \* extract_tables_from_pdf: the tables emitted so far
    xNext,      \* extract_tables_from_pdf: the index in doc of the next table
    xLast,      \* extract_tables_from_pdf: the locals of the last loop body run
    agent,      \* the scoring agent whose run() is called: its AGENT_ID
    response,   \* run: the dict _parse_response returned, as it was returned
    parsed,     \* run: that dict (result in D1), updated in place
    enriched,   \* _add_pages_to_evidence: the list enriched
    aNext,      \* _add_pages_to_evidence: the index of the next evidence item
    aPc,        \* "idle" | "parsed" | "guarded" | "enriching" | "enriched" |
                \* "checked" | "returned"
    returned,   \* run: the dict returned
    wHeader,    \* _write_csv: the argument header
    wRows,      \* _write_csv: the argument rows
    wFile,      \* _write_csv: the characters written to the file at path
    wParsed,    \* the rows a CSV reader returns for the file
    wPc,        \* "idle" | "in" | "written" | "read"
    args,       \* run_report main: the argparse.Namespace parse_args returned
    fs,         \* run_report main: which files exist: the pdf and, under
                \* report_out, the three json outputs and the html report
    loc,        \* run_report main: the locals do_ingest, do_agents, do_laj,
                \* do_html, need_pack_obj, and whether pack is an object
    ran,        \* run_report main: the steps executed so far, in order
    cPc         \* "idle" | "start" | "decided" | "ingested" | "packed" |
                \* "agents" | "laj" | "done" | "raised"

vars == <<nIn, nOut, nOut2, nPc, pack, evidence_id, quote, result, rPc, calls,
          gIn, gHeader, gRows, gPc, sIn, sOut, sPc,
          doc, last_header_by_sig, last_row_by_sig, tables_out, xNext, xLast,
          agent, response, parsed, enriched, aNext, aPc, returned,
          wHeader, wRows, wFile, wParsed, wPc, args, fs, loc, ran, cPc>>

\* the variables of the table extraction
Ingest == <<gIn, gHeader, gRows, gPc, sIn, sOut, sPc,
            doc, last_header_by_sig, last_row_by_sig, tables_out, xNext, xLast>>

\* the variables of a scoring agent's run
Scoring == <<agent, response, parsed, enriched, aNext, aPc, returned>>

\* the variables of the CSV writer
Writing == <<wHeader, wRows, wFile, wParsed, wPc>>

\* the variables of the command line run
Running == <<args, fs, loc, ran, cPc>>

-----------------------------------------------------------------------------
(* Bounds *)

\* longest enumerated input string of the normaliser
MaxLen == 4
\* most text chunks in a pack
MaxChunks == 2
\* most tables in a pack
MaxTables == 2
\* concurrent resolver calls
NumCalls == 2
\* most rows of an enumerated grid
MaxGridRows == 3
\* most rows of an enumerated body
MaxBodyRows == 3
\* most tables of an enumerated document
MaxDocTables == 3
\* the evidence items of a reply are at most
MaxEvidence == 2

-----------------------------------------------------------------------------
(* Characters *)

LowerLetters == {"a", "b", "c", "d", "e", "f", "h", "i", "l", "m", "n", "o", "p",
                 "r", "s", "t", "w", "y"}
UpperLetters == {"A", "B", "D", "H", "I", "O", "T"}
Digits       == {"1"}
Hyphens      == {"HY", "U2010", "U2011"}
CurlyDouble  == {"LDQ", "RDQ", "LOW9DQ", "REV9DQ"}
CurlySingle  == {"LSQ", "RSQ", "LOW9SQ", "REV9SQ"}
Char == LowerLetters \cup UpperLetters \cup Digits \cup Hyphens
          \cup CurlyDouble \cup CurlySingle
          \cup {"SP", "LF", "CR", "TAB", "NBSP", "DQ", "SQ", "FWA", "FWa", "DOT", "U2013"}

\* \s of a str pattern, and str.isspace
IsSpace(c) == c \in {"SP", "LF", "CR", "TAB", "NBSP"}

\* \w of a str pattern
IsWord(c) == c \in LowerLetters \cup UpperLetters \cup Digits \cup {"FWA", "FWa"}

\* the character class [\-‐‑] of _HYPHEN_LINEBREAK_RE
IsHyphen(c) == c \in {"HY", "U2010", "U2011"}

\* unicodedata.normalize("NFKC", .) on one character of Char
NfkcChar(c) ==
    CASE c = "NBSP"  -> "SP"
      [] c = "U2011" -> "U2010"
      [] c = "FWA"   -> "A"
      [] c = "FWa"   -> "a"
      [] OTHER       -> c

\* _TRANSLATION with every typographic quote mapped to the one ASCII apostrophe
TranslateCharOneStyle(c) ==
    CASE c \in CurlyDouble \cup CurlySingle -> "SQ"
      [] c = "NBSP"                          -> "SP"
      [] OTHER                               -> c

\* _TRANSLATION
TranslateChar(c) ==
    CASE c \in CurlyDouble -> "DQ"
      [] c \in CurlySingle -> "SQ"
      [] c = "NBSP"        -> "SP"
      [] OTHER             -> c

\* str.lower on one character of Char
LowerChar(c) ==
    CASE c = "A"   -> "a"
      [] c = "B"   -> "b"
      [] c = "D"   -> "d"
      [] c = "H"   -> "h"
      [] c = "I"   -> "i"
      [] c = "O"   -> "o"
      [] c = "T"   -> "t"
      [] c = "C"   -> "c"
      [] c = "E"   -> "e"
      [] c = "M"   -> "m"
      [] c = "N"   -> "n"
      [] c = "P"   -> "p"
      [] c = "Q"   -> "q"
      [] c = "R"   -> "r"
      [] c = "S"   -> "s"
      [] c = "U"   -> "u"
      [] c = "W"   -> "w"
      [] c = "FWA" -> "FWa"
      [] OTHER     -> c

-----------------------------------------------------------------------------
(* _norm_for_match, step by step *)

\* unicodedata.normalize("NFKC", s)
Nfkc(s) == [i \in 1..Len(s) |-> NfkcChar(s[i])]

\* s.translate(_TRANSLATION)
Translate(s) == [i \in 1..Len(s) |-> TranslateChar(s[i])]

\* s.replace("\r\n", "\n")
RECURSIVE ReplaceCrLfFrom(_, _)
ReplaceCrLfFrom(s, i) ==
    IF i > Len(s) THEN <<>>
    ELSE IF s[i] = "CR" /\ i < Len(s) /\ s[i + 1] = "LF"
         THEN <<"LF">> \o ReplaceCrLfFrom(s, i + 2)
         ELSE <<s[i]>> \o ReplaceCrLfFrom(s, i + 1)

ReplaceCrLf(s) == ReplaceCrLfFrom(s, 1)

\* the first index >= i of s that holds no whitespace (Len(s) + 1 if none)
RECURSIVE WsRunEnd(_, _)
WsRunEnd(s, i) ==
    IF i > Len(s) THEN i
    ELSE IF IsSpace(s[i]) THEN WsRunEnd(s, i + 1) ELSE i

\* the pattern written without its \n: (\w)[\-‐‑]\s*(\w)
HyphenMatchEndAnyWs(s, i) ==
    IF /\ IsWord(s[i])
       /\ i + 1 <= Len(s)
       /\ IsHyphen(s[i + 1])
    THEN LET k == WsRunEnd(s, i + 2)
         IN  IF k <= Len(s) /\ IsWord(s[k]) THEN k ELSE 0
    ELSE 0

\* _HYPHEN_LINEBREAK_RE matched at index i: the index of group 2, or 0.
\* (\w)[\-‐‑]\s*\n\s*(\w): the whitespace run after the hyphen
\* holds a \n and is directly followed by a word character.
HyphenMatchEnd(s, i) ==
    IF /\ IsWord(s[i])
       /\ i + 1 <= Len(s)
       /\ IsHyphen(s[i + 1])
    THEN LET k == WsRunEnd(s, i + 2)
         IN  IF /\ k <= Len(s)
                /\ IsWord(s[k])
                /\ \E m \in (i + 2)..(k - 1) : s[m] = "LF"
             THEN k ELSE 0
    ELSE 0

\* _HYPHEN_LINEBREAK_RE.sub(r"\1\2", s): leftmost, non-overlapping
RECURSIVE HyphenSubFrom(_, _)
HyphenSubFrom(s, i) ==
    IF i > Len(s) THEN <<>>
    ELSE LET k == HyphenMatchEnd(s, i)
         IN  IF k > 0
             THEN <<s[i], s[k]>> \o HyphenSubFrom(s, k + 1)
             ELSE <<s[i]>> \o HyphenSubFrom(s, i + 1)

JoinHyphenLinebreaks(s) == HyphenSubFrom(s, 1)

\* the maximal whitespace run at i, as _WS_RE = \s+ matches it
WsMatchEnd(s, i) == WsRunEnd(s, i)

\* _WS_RE.sub(" ", s)
RECURSIVE CollapseWsFrom(_, _)
CollapseWsFrom(s, i) ==
    IF i > Len(s) THEN <<>>
    ELSE IF IsSpace(s[i])
         THEN <<"SP">> \o CollapseWsFrom(s, WsMatchEnd(s, i))
         ELSE <<s[i]>> \o CollapseWsFrom(s, i + 1)

CollapseWs(s) == CollapseWsFrom(s, 1)

\* str.strip()
Strip(s) ==
    LET keep == {i \in 1..Len(s) : ~IsSpace(s[i])}
    IN  IF keep = {} THEN <<>>
        ELSE LET lo == CHOOSE i \in keep : \A j \in keep : i <= j
                 hi == CHOOSE i \in keep : \A j \in keep : j <= i
             IN  SubSeq(s, lo, hi)

\* s.lower()
Lower(s) == [i \in 1..Len(s) |-> LowerChar(s[i])]

\* _norm_for_match(s)
NormForMatch(s) ==
    IF s = <<>> THEN <<>>
    ELSE Lower(Strip(CollapseWs(JoinHyphenLinebreaks(ReplaceCrLf(Translate(Nfkc(s)))))))

\* a in b, for strings
IsSubstr(a, b) ==
    \E i \in 0..(Len(b) - Len(a)) : SubSeq(b, i + 1, i + Len(a)) = a

-----------------------------------------------------------------------------
(* resolve_evidence_id_and_page *)

(* An evidence id is a sequence of tokens: the words "Text", "Table",     *)
(* "text", "see", a block key, and "SP" for a whitespace character.  Two   *)
(* word tokens next to each other are written without a gap, so there is   *)
(* no word boundary between them.  None is the one-token string NoneStr.   *)
NoneStr == <<"None">>

\* (x or "")
OrEmpty(x) == IF x = NoneStr THEN <<>> ELSE x

\* the tokens that match [pP]\d+_[ct]\d+ as a whole
KeyPattern == {"p01_c01", "p03_c01", "p03_c02", "p05_c01",
               "p02_t01", "p03_t01", "p04_t01", "p99_c99", "P03_c01"}

\* the regular expression \b(Text|Table)\s+([pP]\d+_[ct]\d+)\b matched at
\* token i of e: the index of group 2, or 0
IdMatchAt(e, i) ==
    IF /\ e[i] \in {"Text", "Table"}
       /\ (i = 1 \/ IsSpace(e[i - 1]))
    THEN LET k == WsRunEnd(e, i + 1)
         IN  IF /\ k > i + 1
                /\ k <= Len(e)
                /\ e[k] \in KeyPattern
                /\ (k = Len(e) \/ IsSpace(e[k + 1]))
             THEN k ELSE 0
    ELSE 0

\* re.search(...): the leftmost match, as [matched, kind, key]
IdSearch(e) ==
    LET hits == {i \in 1..Len(e) : IdMatchAt(e, i) > 0}
    IN  IF hits = {} THEN [matched |-> FALSE, kind |-> "", key |-> ""]
        ELSE LET i == CHOOSE h \in hits : \A g \in hits : h <= g
             IN  [matched |-> TRUE,
                  kind    |-> IF e[i] = "Text" THEN "text" ELSE "table",
                  key     |-> e[IdMatchAt(e, i)]]

\* return f"Text {c.chunk_id}", int(c.provenance.page)
TextResult(c) == [found |-> TRUE, kind |-> "Text", key |-> c.chunk_id, page |-> c.page]

\* return f"Table {t.table_id}", int(t.provenance.page)
TableResult(t) == [found |-> TRUE, kind |-> "Table", key |-> t.table_id, page |-> t.page]

\* return None, None (also: no return yet)
NoneNone == [found |-> FALSE, kind |-> "", key |-> "", page |-> 0]

\* a chunk accepted on its chunk_id alone, the quote not looked at
ChunkAcceptsIdOnly(c, q) == TRUE

\* the test made on a chunk whose chunk_id is key: the quote, if given, is
\* in the chunk's text
ChunkAccepts(c, q) ==
    q # <<>> => IsSubstr(NormForMatch(q), NormForMatch(c.text))

\* a table accepted on its table_id alone, the quote not looked at
TableAcceptsIdOnly(t, q) == TRUE

\* the test made on a table whose table_id is key
TableAccepts(t, q) ==
    q # <<>> => IsSubstr(NormForMatch(q), NormForMatch(OrEmpty(t.text_fallback)))

\* for c in pack.text_chunks: if c.chunk_id == key: ...   (from chunk i on)
RECURSIVE FastText(_, _, _, _)
FastText(p, key, q, i) ==
    IF i > Len(p.text_chunks) THEN NoneNone
    ELSE LET c == p.text_chunks[i]
         IN  IF c.chunk_id = key /\ ChunkAccepts(c, q)
             THEN TextResult(c)
             ELSE FastText(p, key, q, i + 1)

\* for t in pack.tables: if t.table_id == key: ...   (from table i on)
RECURSIVE FastTable(_, _, _, _)
FastTable(p, key, q, i) ==
    IF i > Len(p.tables) THEN NoneNone
    ELSE LET t == p.tables[i]
         IN  IF t.table_id = key /\ TableAccepts(t, q)
             THEN TableResult(t)
             ELSE FastTable(p, key, q, i + 1)

\* 1) Fast path: resolve by ID (but validate quote); NoneNone = fall through
FastPath(p, eid, q) ==
    IF eid = <<>> THEN NoneNone
    ELSE LET m == IdSearch(eid)
         IN  IF ~m.matched THEN NoneNone
             ELSE IF m.kind = "text" THEN FastText(p, m.key, q, 1)
             ELSE FastTable(p, m.key, q, 1)

\* the scan of the chunks keeping the last hit instead of returning the first
ScanChunksLast(p, nq, i) ==
    LET hits == {k \in i..Len(p.text_chunks) :
                    IsSubstr(nq, NormForMatch(p.text_chunks[k].text))}
    IN  IF hits = {} THEN [found |-> FALSE, kind |-> "", key |-> "", page |-> 0]
        ELSE LET k == CHOOSE h \in hits : \A g \in hits : g <= h
             IN  [found |-> TRUE, kind |-> "Text",
                  key |-> p.text_chunks[k].chunk_id, page |-> p.text_chunks[k].page]

\* for c in pack.text_chunks: if nq in _norm_for_match(c.text)   (from chunk i on)
RECURSIVE ScanChunks(_, _, _)
ScanChunks(p, nq, i) ==
    IF i > Len(p.text_chunks) THEN NoneNone
    ELSE LET c == p.text_chunks[i]
         IN  IF IsSubstr(nq, NormForMatch(c.text))
             THEN TextResult(c)
             ELSE ScanChunks(p, nq, i + 1)

\* the repair path without its scan of the tables
ScanTablesSkipped(p, nq, i) == [found |-> FALSE, kind |-> "", key |-> "", page |-> 0]

\* for t in pack.tables: if nq in _norm_for_match(blob)   (from table i on)
RECURSIVE ScanTables(_, _, _)
ScanTables(p, nq, i) ==
    IF i > Len(p.tables) THEN NoneNone
    ELSE LET t == p.tables[i]
         IN  IF IsSubstr(nq, NormForMatch(OrEmpty(t.text_fallback)))
             THEN TableResult(t)
             ELSE ScanTables(p, nq, i + 1)

\* the repair path without its "if not nq: return None, None"
RepairPathNoGuard(p, q) ==
    LET nq  == NormForMatch(q)
        hit == ScanChunks(p, nq, 1)
    IN  IF hit.found THEN hit ELSE ScanTables(p, nq, 1)

\* 2) Repair path: resolve by quote
RepairPath(p, q) ==
    LET nq == NormForMatch(q)
    IN  IF nq = <<>> THEN NoneNone
        ELSE LET hit == ScanChunks(p, nq, 1)
             IN  IF hit.found THEN hit ELSE ScanTables(p, nq, 1)

\* the two paths in the other order: the quote searched for before the id is tried
ResolveRepairFirst(p, eid0, quote0) ==
    LET eid    == Strip(OrEmpty(eid0))
        q      == Strip(OrEmpty(quote0))
        repair == RepairPath(p, q)
    IN  IF repair.found THEN repair ELSE FastPath(p, eid, q)

\* resolve_evidence_id_and_page(pack, evidence_id, quote)
resolve_evidence_id_and_page(p, eid0, quote0) ==
    LET eid  == Strip(OrEmpty(eid0))
        q    == Strip(OrEmpty(quote0))
        fast == FastPath(p, eid, q)
    IN  IF fast.found THEN fast ELSE RepairPath(p, q)

-----------------------------------------------------------------------------
(* Grid post-processing of pdf_tables.py *)

(* A cell is a string or None (NoneStr); a row is a sequence of cells or   *)
(* None (NoneRow); a grid is a sequence of rows or None (NoneGrid).        *)
NoneRow  == <<<<"NoneRow">>>>
NoneGrid == <<<<<<"NoneGrid">>>>>>

\* grid or []
OrEmptyGrid(g) == IF g = NoneGrid THEN <<>> ELSE g

\* _norm_cell without its "c or": a None cell is left as it is
NormCellNoGuard(c) ==
    IF c = NoneStr THEN NoneStr
    ELSE Strip([i \in 1..Len(c) |-> IF c[i] = "LF" THEN "SP" ELSE c[i]])

\* _norm_cell(c)
NormCell(c) ==
    LET s == OrEmpty(c)
    IN  Strip([i \in 1..Len(s) |-> IF s[i] = "LF" THEN "SP" ELSE s[i]])

\* max((len(r) for r in rows), default=0)
MaxWidth(rows) ==
    IF rows = <<>> THEN 0
    ELSE CHOOSE n \in {Len(rows[k]) : k \in 1..Len(rows)} :
             \A k \in 1..Len(rows) : Len(rows[k]) <= n

\* the row left at its own length
PadToAsIs(r, n_cols) == r

\* (r + [""] * (n_cols - len(r)))[:n_cols]
PadTo(r, n_cols) == [i \in 1..n_cols |-> IF i <= Len(r) THEN r[i] ELSE <<>>]

\* _rectangularise(rows)
Rectangularise(rows) == [k \in 1..Len(rows) |-> PadTo(rows[k], MaxWidth(rows))]

\* the number of cells of r, from cell i on, that equal ""
RECURSIVE Empties(_, _)
Empties(r, i) ==
    IF i > Len(r) THEN 0
    ELSE (IF r[i] = <<>> THEN 1 ELSE 0) + Empties(r, i + 1)

\* _drop_near_empty_rows(rows, empty_threshold), the threshold in hundredths
RECURSIVE DropNearEmptyFrom(_, _, _)
DropNearEmptyFrom(rows, pct, k) ==
    IF k > Len(rows) THEN <<>>
    ELSE LET r == rows[k]
         IN  IF r = <<>> \/ Empties(r, 1) * 100 >= pct * Len(r)
             THEN DropNearEmptyFrom(rows, pct, k + 1)
             ELSE <<r>> \o DropNearEmptyFrom(rows, pct, k + 1)

\* every row that holds an empty cell dropped
DropRowsWithBlank(rows, pct) == DropNearEmptyFrom(rows, 1, 1)

\* _drop_near_empty_rows(rows, empty_threshold), the threshold in hundredths
DropNearEmptyRows(rows, pct) == DropNearEmptyFrom(rows, pct, 1)

\* sum(len(c) for c in row), from cell i on
RECURSIVE SumLen(_, _)
SumLen(row, i) ==
    IF i > Len(row) THEN 0 ELSE Len(row[i]) + SumLen(row, i + 1)

\* any(ch.isdigit() for ch in c)
HasDigit(c) == \E j \in 1..Len(c) : c[j] \in Digits

\* _looks_like_header_fragment_row(row):
\* blank_ratio > 0.25 and avg_len < 28 and not has_digits
LooksLikeHeaderFragmentRow(row) ==
    LET n == Len(row) - Empties(row, 1)
    IN  /\ n > 0
        /\ 4 * Empties(row, 1) > Len(row)
        /\ SumLen(row, 1) < 28 * n
        /\ ~\E i \in 1..Len(row) : HasDigit(row[i])

\* [A-Za-z] and [a-z]
AsciiLetter(c) == c \in LowerLetters \cup UpperLetters
AsciiLower(c)  == c \in LowerLetters

\* the first index >= i of s that holds no ASCII letter
RECURSIVE LetterRunEnd(_, _)
LetterRunEnd(s, i) ==
    IF i > Len(s) THEN i
    ELSE IF AsciiLetter(s[i]) THEN LetterRunEnd(s, i + 1) ELSE i

\* \b at the gap after index i of s (the end of s included)
BoundaryAfter(s, i) ==
    (i >= 1 /\ i <= Len(s) /\ IsWord(s[i])) # (i + 1 <= Len(s) /\ IsWord(s[i + 1]))

\* the word-split pattern that matches nowhere
WordSplitMatchNone(s, i) == <<0, 0, 0>>

\* \b([A-Za-z]{3,})\s+([a-z]{1,2})\b matched at index i of s:
\* <<last index of group 1, first index of group 2, last index of group 2>>,
\* or <<0, 0, 0>>
WordSplitMatch(s, i) ==
    LET e == LetterRunEnd(s, i) - 1
        k == WsRunEnd(s, e + 1)
        two == /\ k + 1 <= Len(s)
               /\ AsciiLower(s[k]) /\ AsciiLower(s[k + 1])
               /\ BoundaryAfter(s, k + 1)
        one == /\ k <= Len(s)
               /\ AsciiLower(s[k])
               /\ BoundaryAfter(s, k)
    IN  IF /\ BoundaryAfter(s, i - 1)
           /\ e - i + 1 >= 3
           /\ k > e + 1
        THEN IF two THEN <<e, k, k + 1>>
             ELSE IF one THEN <<e, k, k>>
             ELSE <<0, 0, 0>>
        ELSE <<0, 0, 0>>

\* re.sub(r"\b([A-Za-z]{3,})\s+([a-z]{1,2})\b", r"\1\2", m)
RECURSIVE WordSplitSubFrom(_, _)
WordSplitSubFrom(s, i) ==
    IF i > Len(s) THEN <<>>
    ELSE LET m == WordSplitMatch(s, i)
         IN  IF m[1] > 0
             THEN SubSeq(s, i, m[1]) \o SubSeq(s, m[2], m[3])
                    \o WordSplitSubFrom(s, m[3] + 1)
             ELSE <<s[i]>> \o WordSplitSubFrom(s, i + 1)

\* (\w)-\s+(\w) matched at index i of s: the index of group 2, or 0
CellHyphenMatchEnd(s, i) ==
    IF /\ IsWord(s[i])
       /\ i + 2 <= Len(s)
       /\ s[i + 1] = "HY"
       /\ IsSpace(s[i + 2])
    THEN LET k == WsRunEnd(s, i + 2)
         IN  IF k <= Len(s) /\ IsWord(s[k]) THEN k ELSE 0
    ELSE 0

\* re.sub(r"(\w)-\s+(\w)", r"\1\2", m)
RECURSIVE CellHyphenSubFrom(_, _)
CellHyphenSubFrom(s, i) ==
    IF i > Len(s) THEN <<>>
    ELSE LET k == CellHyphenMatchEnd(s, i)
         IN  IF k > 0
             THEN <<s[i], s[k]>> \o CellHyphenSubFrom(s, k + 1)
             ELSE <<s[i]>> \o CellHyphenSubFrom(s, i + 1)

\* the cell overwritten by the fragment
JoinCellOverwrite(m, c) == c

\* merged[i] = (merged[i] + " " + c).strip() if merged[i] else c
JoinCell(m, c) == IF m # <<>> THEN Strip(m \o <<"SP">> \o c) ELSE c

\* merged[ci] after the first k rows of _merge_rows_columnwise
RECURSIVE MergeColumn(_, _, _)
MergeColumn(rows, ci, k) ==
    IF k = 0 THEN <<>>
    ELSE LET m == MergeColumn(rows, ci, k - 1)
             c == IF ci <= Len(rows[k]) THEN NormCell(rows[k][ci]) ELSE <<>>
         IN  IF c # <<>> THEN JoinCell(m, c) ELSE m

\* _merge_rows_columnwise(rows)
MergeRowsColumnwise(rows) ==
    [ci \in 1..MaxWidth(rows) |->
        CellHyphenSubFrom(
            WordSplitSubFrom(
                Strip(CollapseWs(MergeColumn(rows, ci, Len(rows)))), 1), 1)]

\* prev after the filled cells of r are merged into it
MergeIntoPrev(prev, r) ==
    [i \in 1..Len(prev) |->
        IF i <= Len(r) /\ r[i] # <<>> THEN JoinCell(prev[i], r[i]) ELSE prev[i]]

\* len(filled) for filled = [i for i, c in enumerate(r) if c]
Filled(r) == Len(r) - Empties(r, 1)

\* out of _merge_continuation_rows after the first k rows of body
RECURSIVE MergeContinuationUpTo(_, _, _)
MergeContinuationUpTo(body, cont_fill_max, k) ==
    IF k = 0 THEN <<>>
    ELSE LET out == MergeContinuationUpTo(body, cont_fill_max, k - 1)
             r   == body[k]
         IN  IF out # <<>> /\ Filled(r) <= cont_fill_max
             THEN [out EXCEPT ![Len(out)] = MergeIntoPrev(out[Len(out)], r)]
             ELSE Append(out, r)

\* _merge_continuation_rows(body, cont_fill_max)
MergeContinuationRows(body, cont_fill_max) ==
    MergeContinuationUpTo(body, cont_fill_max, Len(body))

\* the header block counted without the limit of ten rows
RECURSIVE HeaderBlockLenUnlimited(_, _)
HeaderBlockLenUnlimited(rows, i) ==
    IF i < Len(rows) /\ LooksLikeHeaderFragmentRow(rows[i + 1])
    THEN HeaderBlockLenUnlimited(rows, i + 1)
    ELSE i

\* the number of leading rows of rows[:10] that look like header fragments
RECURSIVE HeaderBlockLen(_, _)
HeaderBlockLen(rows, i) ==
    IF i < Len(rows) /\ i < 10 /\ LooksLikeHeaderFragmentRow(rows[i + 1])
    THEN HeaderBlockLen(rows, i + 1)
    ELSE i

\* is not None, for a row
NotNoneRow(row) == row # NoneRow

\* rows = [[_norm_cell(c) for c in (row or [])] for row in (grid or [])
\*         if row is not None]
NormaliseRows(g) ==
    LET kept == SelectSeq(OrEmptyGrid(g), NotNoneRow)
    IN  [k \in 1..Len(kept) |-> [i \in 1..Len(kept[k]) |-> NormCell(kept[k][i])]]

\* _fix_table_grid(grid): the pair (header, body) as a record
FixTableGrid(g) ==
    LET rows == DropNearEmptyRows(Rectangularise(NormaliseRows(g)), 85)
    IN  IF rows = <<>> THEN [header |-> <<>>, body |-> <<>>]
        ELSE LET body_start == HeaderBlockLen(rows, 0)
                 header == IF body_start > 0
                           THEN MergeRowsColumnwise(SubSeq(rows, 1, body_start))
                           ELSE rows[1]
                 body0  == IF body_start > 0
                           THEN SubSeq(rows, body_start + 1, Len(rows))
                           ELSE SubSeq(rows, 2, Len(rows))
                 n_cols == IF header # <<>> THEN Len(header) ELSE MaxWidth(body0)
                 body1  == [k \in 1..Len(body0) |-> PadTo(body0[k], n_cols)]
                 body2  == MergeContinuationRows(body1, 2)
             IN  [header |-> header, body |-> DropNearEmptyRows(body2, 90)]

-----------------------------------------------------------------------------
(* Multi-page continuation handling of extract_tables_from_pdf *)

\* round(x, -1) of a whole number x >= 0: to the nearest ten, a half to
\* the even ten
Round10(x) ==
    LET lo == x - (x % 10)
    IN  IF x % 10 < 5 THEN lo
        ELSE IF x % 10 > 5 THEN lo + 10
        ELSE IF (lo \div 10) % 2 = 0 THEN lo ELSE lo + 10

\* table.bbox of a table that has none
NoBBox == <<>>

\* _table_signature(n_cols, bbox), bbox = <<x0, y0, x1, y1>>
TableSignature(n_cols, bbox) ==
    IF Len(bbox) # 4 THEN <<"cols", n_cols, "bbox:None">>
    ELSE <<"cols", n_cols, "x0", Round10(bbox[1]), "x1", Round10(bbox[3])>>

\* if c, for a cell
IsFilled(c) == c # <<>>

\* [c for c in row if c]
NonEmptyCells(row) == SelectSeq(row, IsFilled)

\* len(c.split())
RECURSIVE WordCount(_, _)
WordCount(c, i) ==
    IF i > Len(c) THEN 0
    ELSE (IF ~IsSpace(c[i]) /\ (i = 1 \/ IsSpace(c[i - 1])) THEN 1 ELSE 0)
           + WordCount(c, i + 1)

\* the characters . , ; : ’ ' ( )
ParagraphPunct == {"DOT", "COMMA", "SEMI", "COLON", "RSQ", "SQ", "LPAR", "RPAR"}

\* _looks_like_paragraph_row(row)
LooksLikeParagraphRow(row) ==
    LET cells == NonEmptyCells(row)
    IN  /\ cells # <<>>
        /\ \/ \E k \in 1..Len(cells) :
                 /\ WordCount(cells[k], 1) >= 12
                 /\ \E j \in 1..Len(cells[k]) : cells[k][j] \in ParagraphPunct
           \/ SumLen(cells, 1) > 35 * Len(cells)

\* " ".join(cells)
RECURSIVE JoinSp(_, _)
JoinSp(cells, k) ==
    IF k > Len(cells) THEN <<>>
    ELSE IF k = Len(cells) THEN cells[k]
    ELSE cells[k] \o <<"SP">> \o JoinSp(cells, k + 1)

\* the first index >= i of s that holds no word character
RECURSIVE WordRunEnd(_, _)
WordRunEnd(s, i) ==
    IF i > Len(s) THEN i
    ELSE IF IsWord(s[i]) THEN WordRunEnd(s, i + 1) ELSE i

\* the maximal runs of word characters of s, from index i on
RECURSIVE TokensFrom(_, _)
TokensFrom(s, i) ==
    IF i > Len(s) THEN {}
    ELSE IF IsWord(s[i])
         THEN {SubSeq(s, i, WordRunEnd(s, i) - 1)} \cup TokensFrom(s, WordRunEnd(s, i))
         ELSE TokensFrom(s, i + 1)

\* {t for t in re.split(r"\W+", a.lower()) if t}
Tokens(a) == TokensFrom(Lower(a), 1)

\* _jaccard_similarity(a, b) >= threshold, the threshold in hundredths
JaccardAtLeast(a, b, pct) ==
    LET a_set == Tokens(a)
        b_set == Tokens(b)
    IN  IF a_set = {} /\ b_set = {} THEN 100 >= pct
        ELSE IF a_set = {} \/ b_set = {} THEN 0 >= pct
        ELSE 100 * Cardinality(a_set \cap b_set) >= pct * Cardinality(a_set \cup b_set)

\* _headers_similar(h1, h2), threshold 0.65
HeadersSimilar(h1, h2) ==
    JaccardAtLeast(Strip(JoinSp(NonEmptyCells(h1), 1)),
                   Strip(JoinSp(NonEmptyCells(h2), 1)), 65)

\* _row_is_sparse(row, max_filled)
RowIsSparse(row, max_filled) ==
    Cardinality({i \in 1..Len(row) : Strip(row[i]) # <<>>}) <= max_filled

\* the words of _UNFINISHED_RE
UnfinishedWords ==
    {<<"t", "o">>, <<"a", "n", "d">>, <<"o", "r">>, <<"f", "o", "r">>, <<"o", "f">>,
     <<"w", "i", "t", "h">>, <<"u", "n", "t", "i", "l">>, <<"v", "i", "a">>, <<"b", "y">>}

\* str.rstrip(), the \s*$ of _UNFINISHED_RE
RStrip(s) ==
    LET keep == {i \in 1..Len(s) : ~IsSpace(s[i])}
    IN  IF keep = {} THEN <<>>
        ELSE SubSeq(s, 1, CHOOSE i \in keep : \A j \in keep : j <= i)

\* _UNFINISHED_RE.match(c): .*\b(to|and|or|for|of|with|until|via|by)\s*$
UnfinishedMatch(c) ==
    LET t == RStrip(c)
    IN  \E w \in UnfinishedWords :
           /\ Len(w) <= Len(t)
           /\ Lower(SubSeq(t, Len(t) - Len(w) + 1, Len(t))) = w
           /\ (Len(t) = Len(w) \/ ~IsWord(t[Len(t) - Len(w)]))
           /\ \A m \in 1..(Len(t) - Len(w)) : t[m] # "LF"

\* the largest member of a non-empty set of numbers
Last(S) == CHOOSE i \in S : \A j \in S : j <= i

\* _find_best_merge_col(prev_row), counted from 1
FindBestMergeCol(prev_row) ==
    LET unfinished == {i \in 1..Len(prev_row) :
                         prev_row[i] # <<>> /\ UnfinishedMatch(prev_row[i])}
        nonempty   == {i \in 1..Len(prev_row) : prev_row[i] # <<>>}
    IN  IF unfinished # {} THEN Last(unfinished)
        ELSE IF nonempty # {} THEN Last(nonempty)
        ELSE 1

\* _merge_row_into_prev(prev_row, cont_row)
MergeRowIntoPrev(prev_row, cont_row) ==
    LET merge_col == FindBestMergeCol(prev_row)
        fragments == NonEmptyCells(cont_row)
    IN  IF fragments = <<>> THEN prev_row
        ELSE [prev_row EXCEPT ![merge_col] =
                IF prev_row[merge_col] # <<>>
                THEN Strip(prev_row[merge_col] \o <<"SP">> \o JoinSp(fragments, 1))
                ELSE JoinSp(fragments, 1)]

\* the test that lets every grid through
IsShortGridNever(g) == FALSE

\* not grid or len(grid) < 2
IsShortGrid(g) == Len(OrEmptyGrid(g)) < 2

\* the lookup that finds nothing
DictGetNone(d, sig) == <<>>

\* the lookup that falls back on the entry of another signature
DictGetAny(d, sig) ==
    IF sig \in DOMAIN d THEN d[sig]
    ELSE IF DOMAIN d # {} THEN d[CHOOSE s \in DOMAIN d : TRUE]
    ELSE <<>>

\* d.get(sig): the value None is written <<>>, which a remembered header or
\* row never is, None and [] being read only by "if" and by "or []"
DictGet(d, sig) == IF sig \in DOMAIN d THEN d[sig] ELSE <<>>

\* d[sig] = v
DictPut(d, sig, v) == [s \in DOMAIN d \cup {sig} |-> IF s = sig THEN v ELSE d[s]]

\* the inferred header left out of the rows
PrependRowDropped(header, rows) == rows

\* rows = [header] + rows
PrependRow(header, rows) == <<header>> \o rows

\* the one member of a set of one value
Only(S) == CHOOSE x \in S : TRUE

(* The body of "for ti, table in enumerate(found, start=1)" from the call  *)
(* of _fix_table_grid to the test before table_id, one operator for each   *)
(* of its parts.  A part takes the locals the parts before it have set, as *)
(* a record, and gives that record with the locals it sets.                *)

\* header, rows = _fix_table_grid(grid); sig = _table_signature(...);
\* prev_header = last_header_by_sig.get(sig)
Cleaned(fixed, bbox, lh) ==
    LET sig == TableSignature(IF fixed.header # <<>> THEN Len(fixed.header)
                              ELSE IF fixed.body # <<>> THEN Len(fixed.body[1]) ELSE 0,
                              bbox)
    IN  [fixed |-> fixed, sig |-> sig, prev_header |-> DictGet(lh, sig),
         header |-> fixed.header, rows |-> fixed.body]

\* Case 1: the inferred header looks like narrative text
Case1(c) ==
    LET case1 == /\ c.header # <<>> /\ c.prev_header # <<>>
                 /\ LooksLikeParagraphRow(c.header)
    IN  [fixed |-> c.fixed, sig |-> c.sig, prev_header |-> c.prev_header,
         case1 |-> case1,
         header |-> IF case1 THEN c.prev_header ELSE c.header,
         rows |-> IF case1 THEN PrependRow(c.header, c.rows) ELSE c.rows]

\* Case 2: the header is repeated on the next page
Case2(c) ==
    LET case2 == /\ c.prev_header # <<>> /\ c.header # <<>>
                 /\ HeadersSimilar(c.header, c.prev_header)
    IN  [fixed |-> c.fixed, sig |-> c.sig, prev_header |-> c.prev_header,
         case1 |-> c.case1, case2 |-> case2,
         header |-> IF case2 THEN c.prev_header ELSE c.header,
         rows |-> IF case2 /\ c.rows # <<>> /\ HeadersSimilar(c.rows[1], c.prev_header)
                  THEN Tail(c.rows) ELSE c.rows]

\* Update remembered header; cross-page row stitching; update of
\* last_row_by_sig; if not header and not rows: continue
Stitched(c, lh, lr) ==
    LET stitch == /\ c.prev_header # <<>> /\ c.sig \in DOMAIN lr /\ c.rows # <<>>
                  /\ RowIsSparse(c.rows[1], 2)
        merged == IF stitch THEN MergeRowIntoPrev(lr[c.sig], c.rows[1]) ELSE <<>>
        lr1    == IF stitch THEN DictPut(lr, c.sig, merged) ELSE lr
        rows   == IF stitch THEN Tail(c.rows) ELSE c.rows
    IN  [fixed |-> c.fixed, sig |-> c.sig, prev_header |-> c.prev_header,
         case1 |-> c.case1, case2 |-> c.case2, stitch |-> stitch,
         first |-> IF stitch THEN c.rows[1] ELSE <<>>,
         merged |-> merged,
         header |-> c.header, rows |-> rows,
         emit |-> ~(c.header = <<>> /\ rows = <<>>),
         last_header_by_sig |-> IF c.header # <<>> THEN DictPut(lh, c.sig, c.header) ELSE lh,
         last_row_by_sig |-> IF rows # <<>> THEN DictPut(lr1, c.sig, rows[Len(rows)]) ELSE lr1]

\* the whole of it: the header and rows that reach tables_out, whether they
\* do, and the two dictionaries afterwards
HandleTable(g, bbox, lh, lr) ==
    Only({Only({Only({Only({Stitched(c2, lh, lr)
                              : c2 \in {Case2(c1)}})
                        : c1 \in {Case1(c0)}})
                  : c0 \in {Cleaned(fixed, bbox, lh)}})
            : fixed \in {FixTableGrid(g)}})

-----------------------------------------------------------------------------
(* The scoring agents D1, D2, D6, D7, D8: run, _apply_guards and           *)
(* _add_pages_to_evidence.  The dict _parse_response returns is a record   *)
(* [rating, rationale, evidence, uncertainty]; an evidence item of the     *)
(* model's reply is a record [id, quote, evidence_type] of strings or      *)
(* None, a missing key being read as None by e.get.                        *)

\* D6.UNCERTAINTY_CUES
UNCERTAINTY_CUES ==
    {<<"n", "o", "SP", "c", "e", "r", "t", "a", "i", "n", "t", "y">>,
     <<"c", "a", "n", "n", "o", "t", "SP", "d", "e", "t", "e", "r", "m", "i", "n", "e">>,
     <<"c", "a", "n", "SQ", "t", "SP", "d", "e", "t", "e", "r", "m", "i", "n", "e">>,
     <<"u", "n", "c", "l", "e", "a", "r", "SP", "w", "h", "e", "t", "h", "e", "r">>,
     <<"i", "t", "SP", "i", "s", "SP", "u", "n", "c", "l", "e", "a", "r">>,
     <<"u", "n", "k", "n", "o", "w", "n">>,
     <<"w", "e", "SP", "c", "a", "n", "n", "o", "t", "SP", "k", "n", "o", "w">>,
     <<"m", "a", "y", "SP", "n", "o", "t", "SP", "h", "a", "v", "e">>,
     <<"m", "i", "g", "h", "t", "SP", "n", "o", "t", "SP", "h", "a", "v", "e">>}

\* D6.DEFINITIVE_CUES
DEFINITIVE_CUES ==
    {<<"w", "o", "u", "l", "d", "SP", "h", "a", "v", "e">>,
     <<"w", "o", "u", "l", "d", "SQ", "v", "e">>,
     <<"d", "e", "f", "i", "n", "i", "t", "e", "l", "y">>,
     <<"c", "l", "e", "a", "r", "l", "y">>,
     <<"o", "b", "v", "i", "o", "u", "s", "l", "y">>,
     <<"i", "n", "e", "v", "i", "t", "a", "b", "l", "y">>,
     <<"c", "e", "r", "t", "a", "i", "n", "l", "y">>,
     <<"d", "i", "r", "e", "c", "t", "l", "y", "SP", "c", "a", "u", "s", "e", "d">>,
     <<"r", "e", "s", "u", "l", "t", "e", "d", "SP", "i", "n">>}

\* D7.SYSTEM_ACTION_CUES
SYSTEM_ACTION_CUES ==
    {<<"p", "a", "t", "h", "w", "a", "y">>,
     <<"w", "o", "r", "k", "f", "l", "o", "w">>,
     <<"p", "r", "o", "c", "e", "s", "s">>,
     <<"c", "a", "r", "e", "SP", "p", "r", "o", "c", "e", "s", "s">>,
     <<"h", "a", "n", "d", "o", "v", "e", "r">>,
     <<"e", "s", "c", "a", "l", "a", "t">>,
     <<"i", "n", "t", "e", "r", "f", "a", "c", "e">>,
     <<"r", "o", "l", "e">>,
     <<"r", "e", "s", "p", "o", "n", "s", "i", "b", "i", "l">>,
     <<"I", "T">>,
     <<"s", "y", "s", "t", "e", "m">>,
     <<"e", "q", "u", "i", "p", "m", "e", "n", "t">>,
     <<"s", "t", "a", "f", "f", "i", "n", "g">>,
     <<"c", "a", "p", "a", "c", "i", "t", "y">>,
     <<"t", "r", "a", "n", "s", "f", "e", "r">>,
     <<"r", "e", "f", "e", "r", "r", "a", "l">>,
     <<"c", "r", "i", "t", "e", "r", "i", "a">>,
     <<"p", "r", "o", "t", "o", "c", "o", "l">>}

\* D7.COLLAB_CUES
COLLAB_CUES ==
    {<<"c", "o", "HY", "d", "e", "v", "e", "l", "o", "p", "e", "d">>,
     <<"d", "e", "v", "e", "l", "o", "p", "e", "d", "SP", "c", "o", "l", "l", "a", "b", "o", "r", "a", "t", "i", "v", "e", "l", "y">>,
     <<"w", "i", "t", "h", "SP", "s", "t", "a", "f", "f">>,
     <<"s", "t", "a", "k", "e", "h", "o", "l", "d", "e", "r", "s">>,
     <<"m", "u", "l", "t", "i", "d", "i", "s", "c", "i", "p", "l", "i", "n", "a", "r", "y">>,
     <<"M", "D", "T">>,
     <<"a", "g", "r", "e", "e", "d", "SP", "w", "i", "t", "h">>,
     <<"c", "o", "HY", "d", "e", "s", "i", "g", "n", "e", "d">>,
     <<"e", "n", "g", "a", "g", "e", "d">>}

\* D7.GOVERNANCE_CUES
GOVERNANCE_CUES ==
    {<<"o", "w", "n", "e", "r">>,
     <<"r", "e", "s", "p", "o", "n", "s", "i", "b", "l", "e">>,
     <<"l", "e", "a", "d">>,
     <<"b", "y">>,
     <<"d", "u", "e">>,
     <<"d", "e", "a", "d", "l", "i", "n", "e">>,
     <<"m", "o", "n", "i", "t", "o", "r">>,
     <<"r", "e", "v", "i", "e", "w">>,
     <<"a", "u", "d", "i", "t">>,
     <<"t", "r", "a", "c", "k">>,
     <<"p", "r", "o", "g", "r", "e", "s", "s">>,
     <<"r", "e", "p", "o", "r", "t", "SP", "t", "o">>}

\* D7.SAFETY_CLUTTER_CUES
SAFETY_CLUTTER_CUES ==
    {<<"r", "e", "m", "i", "n", "d">>,
     <<"r", "e", "t", "r", "a", "i", "n">>,
     <<"t", "r", "a", "i", "n", "i", "n", "g">>,
     <<"e", "d", "u", "c", "a", "t", "i", "o", "n">>,
     <<"a", "w", "a", "r", "e", "n", "e", "s", "s">>,
     <<"r", "e", "i", "n", "f", "o", "r", "c", "e">>,
     <<"r", "e", "HY", "c", "i", "r", "c", "u", "l", "a", "t", "e">>,
     <<"s", "h", "a", "r", "e", "SP", "l", "e", "a", "r", "n", "i", "n", "g">>,
     <<"u", "p", "d", "a", "t", "e", "SP", "p", "o", "l", "i", "c", "y">>,
     <<"r", "e", "v", "i", "s", "e", "SP", "p", "o", "l", "i", "c", "y">>,
     <<"p", "o", "s", "t", "e", "r">>,
     <<"e", "m", "a", "i", "l">>,
     <<"r", "e", "i", "t", "e", "r", "a", "t", "e">>,
     <<"c", "o", "m", "p", "l", "i", "a", "n", "c", "e">>,
     <<"e", "n", "s", "u", "r", "e", "SP", "s", "t", "a", "f", "f">>}

\* D8.VAGUE_CUES
VAGUE_CUES ==
    {<<"a", "p", "p", "r", "o", "p", "r", "i", "a", "t", "e">>,
     <<"t", "i", "m", "e", "l", "y">>,
     <<"g", "o", "o", "d", "SP", "c", "a", "r", "e">>,
     <<"m", "a", "n", "a", "g", "e", "d", "SP", "w", "e", "l", "l">>,
     <<"s", "h", "o", "u", "l", "d">>,
     <<"e", "n", "s", "u", "r", "e">>,
     <<"r", "a", "i", "s", "e", "SP", "a", "w", "a", "r", "e", "n", "e", "s", "s">>,
     <<"a", "s", "SP", "s", "o", "o", "n", "SP", "a", "s", "SP", "p", "o", "s", "s", "i", "b", "l", "e">>}

\* D8.JARGON_CUES
JARGON_CUES ==
    {<<"S", "D", "E", "C">>,
     <<"A", "M", "U">>,
     <<"M", "AMP", "M">>,
     <<"D", "a", "t", "i", "x">>,
     <<"C", "R", "P">>,
     <<"W", "C", "C">>,
     <<"N", "B", "M">>,
     <<"E", "D">>,
     <<"S", "H", "O">>,
     <<"Q", "M">>}

\* (e.get(k) or "").strip()
GetStripped(v) == Strip(OrEmpty(v))

\* (e.get("quote") or "").lower()
GetLowered(v) == Lower(OrEmpty(v))

\* any(c in q for c in cues)
AnyCueIn(cues, q) == \E c \in cues : IsSubstr(c, q)

\* any(e.get("evidence_type") == et for e in evidence)
AnyOfType(evidence, et) == \E k \in 1..Len(evidence) : evidence[k].evidence_type = et

\* D6._apply_guards, the plausibility checks: some item makes the result
\* uncertain
ImplausibleD6(evidence) ==
    \E k \in 1..Len(evidence) :
        \/ /\ evidence[k].evidence_type = <<"positive">>
           /\ ~AnyCueIn(UNCERTAINTY_CUES, GetLowered(evidence[k].quote))
        \/ /\ evidence[k].evidence_type = <<"negative">>
           /\ ~AnyCueIn(DEFINITIVE_CUES, GetLowered(evidence[k].quote))

\* D7._apply_guards, the plausibility checks
ImplausibleD7(evidence) ==
    \E k \in 1..Len(evidence) :
        \/ /\ evidence[k].evidence_type = <<"positive">>
           /\ ~AnyCueIn(SYSTEM_ACTION_CUES \cup COLLAB_CUES \cup GOVERNANCE_CUES,
                        GetLowered(evidence[k].quote))
        \/ /\ evidence[k].evidence_type = <<"negative">>
           /\ ~AnyCueIn(SAFETY_CLUTTER_CUES, GetLowered(evidence[k].quote))

\* D8._apply_guards, the soft plausibility checks: cue.lower() for the
\* jargon cues
ImplausibleD8(evidence) ==
    \E k \in 1..Len(evidence) :
        /\ evidence[k].evidence_type = <<"negative">>
        /\ ~AnyCueIn(VAGUE_CUES \cup {Lower(c) : c \in JARGON_CUES},
                     GetLowered(evidence[k].quote))

\* the two rating consistency checks the guards of D2, D6, D7 and D8 share
RatingUnsupported(r) ==
    \/ r.rating = "GOOD" /\ ~AnyOfType(r.evidence, <<"positive">>)
    \/ r.rating = "LITTLE" /\ ~AnyOfType(r.evidence, <<"negative">>)

\* D2._apply_guards(result)
ApplyGuardsD2(r) ==
    IF r.evidence = <<>> THEN [r EXCEPT !.uncertainty = TRUE]
    ELSE [r EXCEPT !.uncertainty = r.uncertainty \/ RatingUnsupported(r)]

\* D6._apply_guards(result)
ApplyGuardsD6(r) ==
    IF r.evidence = <<>> THEN [r EXCEPT !.uncertainty = TRUE]
    ELSE [r EXCEPT !.uncertainty =
                       r.uncertainty \/ RatingUnsupported(r) \/ ImplausibleD6(r.evidence)]

\* "actions are present" in r or "improvement actions are present" in r,
\* r the rationale in lower case
ClaimsActions(rationale) ==
    \E c \in {<<"a", "c", "t", "i", "o", "n", "s", "SP", "a", "r", "e", "SP",
                "p", "r", "e", "s", "e", "n", "t">>,
              <<"i", "m", "p", "r", "o", "v", "e", "m", "e", "n", "t", "SP",
                "a", "c", "t", "i", "o", "n", "s", "SP", "a", "r", "e", "SP",
                "p", "r", "e", "s", "e", "n", "t">>} :
        IsSubstr(c, GetLowered(rationale))

\* D7._apply_guards(result): the rating checked is the one read first
ApplyGuardsD7(r) ==
    LET forced == r.evidence = <<>> /\ ClaimsActions(r.rationale)
    IN  [r EXCEPT !.rating = IF forced THEN "SOME" ELSE r.rating,
                  !.uncertainty = \/ r.uncertainty
                                  \/ forced
                                  \/ RatingUnsupported(r)
                                  \/ ImplausibleD7(r.evidence)]

\* D8._apply_guards(result)
ApplyGuardsD8(r) ==
    IF r.evidence = <<>> THEN [r EXCEPT !.uncertainty = TRUE]
    ELSE [r EXCEPT !.uncertainty =
                       r.uncertainty \/ RatingUnsupported(r) \/ ImplausibleD8(r.evidence)]

\* self._apply_guards(parsed) of agent a
ApplyGuardsOf(a, r) ==
    CASE a = "D2" -> ApplyGuardsD2(r)
      [] a = "D6" -> ApplyGuardsD6(r)
      [] a = "D7" -> ApplyGuardsD7(r)
      [] a = "D8" -> ApplyGuardsD8(r)

\* D1.run, the two checks after _add_pages_to_evidence
ChecksD1(r) ==
    [r EXCEPT !.uncertainty =
        \/ r.uncertainty
        \/ r.rating \in {"GOOD", "SOME"} /\ ~AnyOfType(r.evidence, <<"positive">>)
        \/ r.rating = "LITTLE" /\ r.evidence = <<>>]

\* resolved_id, page = resolve_evidence_id_and_page(pack, eid, quote), for
\* evidence item e
ResolvedFor(p, e) ==
    resolve_evidence_id_and_page(p, GetStripped(e.id), GetStripped(e.quote))

\* the resolved id as the string the resolver returns
ResolvedId(r) == <<r.kind, "SP", r.key>>

\* final_id = resolved_id or eid
FinalId(eid, r) == IF r.found THEN ResolvedId(r) ELSE eid

\* the flag left as it is
UncertaintyKept(u, r) == u

\* if page is None: result["uncertainty"] = True
UncertaintyAfter(u, r) == IF ~r.found THEN TRUE ELSE u

\* the dict appended to enriched for evidence item e, r the resolver's
\* result; page None is the page of NoneNone
EnrichedItem(e, r) ==
    [id            |-> FinalId(GetStripped(e.id), r),
     page          |-> r.page,
     quote         |-> GetStripped(e.quote),
     evidence_type |-> GetStripped(e.evidence_type)]

-----------------------------------------------------------------------------
(* The CSV writer (ingest/pdf_tables.py) *)

\* s.replace('"', '""'), from position i on
RECURSIVE DoubleQuotesFrom(_, _)
DoubleQuotesFrom(s, i) ==
    IF i > Len(s) THEN <<>>
    ELSE (IF s[i] = "DQ" THEN <<"DQ", "DQ">> ELSE <<s[i]>>)
             \o DoubleQuotesFrom(s, i + 1)

\* the characters for which _csv_escape wraps the cell in quotes
CsvSpecials == {"COMMA", "LF", "DQ"}

\* _csv_escape(s)
CsvEscape(c) ==
    LET s == DoubleQuotesFrom(OrEmpty(c), 1)
    IN  IF \E i \in 1..Len(s) : s[i] \in CsvSpecials
        THEN <<"DQ">> \o s \o <<"DQ">>
        ELSE s

\* ",".join(_csv_escape(c) for c in r), from cell i on
RECURSIVE JoinEscaped(_, _)
JoinEscaped(r, i) ==
    IF i > Len(r) THEN <<>>
    ELSE CsvEscape(r[i])
             \o (IF i < Len(r) THEN <<"COMMA">> ELSE <<>>)
             \o JoinEscaped(r, i + 1)

\* _write_csv: the lines of the rows, from row k on, each padded or cut to
\* the width of the header
RECURSIVE WriteRowsFrom(_, _, _)
WriteRowsFrom(header, rows, k) ==
    IF k > Len(rows) THEN <<>>
    ELSE JoinEscaped(PadTo(rows[k], Len(header)), 1) \o <<"LF">>
             \o WriteRowsFrom(header, rows, k + 1)

\* _write_csv(path, header, rows): the characters of the file
WriteCsv(header, rows) ==
    JoinEscaped(header, 1) \o <<"LF">> \o WriteRowsFrom(header, rows, 1)

-----------------------------------------------------------------------------
(* Values of the variables of a component that is not running *)

EmptyPack == [text_chunks |-> <<>>, tables |-> <<>>]

\* the locals of the loop body where no table was handled yet
NoLocals == [sig |-> <<>>, prev_header |-> <<>>, case1 |-> FALSE, case2 |-> FALSE,
             stitch |-> FALSE, first |-> <<>>, merged |-> <<>>, emit |-> FALSE]


NormIdle     == nIn = <<>> /\ nOut = <<>> /\ nOut2 = <<>> /\ nPc = "idle"
ResolverIdle == evidence_id = <<>> /\ quote = <<>> /\ result = NoneNone /\ rPc = "idle"
CallsIdle    == calls = <<>>
GridIdle     == gIn = <<>> /\ gHeader = <<>> /\ gRows = <<>> /\ gPc = "idle"
StitchIdle   == sIn = <<>> /\ sOut = <<>> /\ sPc = "idle"
ExtractIdle  ==
    /\ doc = <<>> /\ xNext = 0 /\ tables_out = <<>>
    /\ last_header_by_sig = <<>> /\ last_row_by_sig = <<>>
    /\ xLast = NoLocals
IngestIdle   == GridIdle /\ StitchIdle /\ ExtractIdle

\* no dict parsed, none returned
NoReply  == [rating |-> "None", rationale |-> NoneStr, evidence |-> <<>>,
             uncertainty |-> FALSE]
NoReturn == [agent_id |-> "", rating |-> "None", rationale |-> NoneStr,
             evidence |-> <<>>, uncertainty |-> FALSE]

ScoringIdle ==
    /\ agent = "" /\ response = NoReply /\ parsed = NoReply
    /\ enriched = <<>> /\ aNext = 0 /\ aPc = "idle"
    /\ returned = NoReturn

\* no file written, none read back
WritingIdle ==
    /\ wHeader = <<>> /\ wRows = <<>> /\ wFile = <<>> /\ wParsed = <<>>
    /\ wPc = "idle"

\* main not called
NoArgs == [no_ingest |-> FALSE, agents |-> FALSE, laj |-> FALSE, html |-> FALSE,
           html_only |-> FALSE, force |-> FALSE]
NoFiles == [pdf |-> FALSE, pack |-> FALSE, agents |-> FALSE, laj |-> FALSE,
            html |-> FALSE]
NoDecision == [do_ingest |-> FALSE, do_agents |-> FALSE, do_laj |-> FALSE,
               do_html |-> FALSE, need_pack_obj |-> FALSE, pack |-> FALSE]

RunningIdle ==
    /\ args = NoArgs /\ fs = NoFiles /\ loc = NoDecision /\ ran = <<>>
    /\ cPc = "idle"

OutputIdle == WritingIdle /\ RunningIdle

-----------------------------------------------------------------------------
(* The normaliser applied to bounded inputs *)

\* the characters the enumerated inputs are made of
Alphabet == {"a", "A", "SP", "LF", "CR", "HY", "U2011", "LDQ"}

BoundedStr(n) == UNION {[1..k -> Alphabet] : k \in 0..n}

ExCurlyHello  == <<"LDQ", "H", "e", "l", "l", "o", "RDQ", "SP", "SP", "w", "o", "r", "l", "d">>
ExSingleHello == <<"SQ", "h", "e", "l", "l", "o", "SQ", "SP", "w", "o", "r", "l", "d">>
ExDoubleHello == <<"DQ", "h", "e", "l", "l", "o", "DQ", "SP", "w", "o", "r", "l", "d">>
ExTransFer    == <<"T", "r", "a", "n", "s", "HY", "LF", "f", "e", "r">>
ExTransfer    == <<"t", "r", "a", "n", "s", "f", "e", "r">>
ExBackToBack  == <<"a", "HY", "LF", "b", "HY", "LF", "c">>
ExTwoSplits   == <<"a", "b", "U2010", "SP", "CR", "LF", "c", "d", "HY", "LF", "e">>
ExFullwidth   == <<"FWA", "NBSP", "LSQ", "B", "RSQ", "TAB">>

NormExamples == {ExCurlyHello, ExSingleHello, ExDoubleHello, ExTransFer,
                 ExTransfer, ExBackToBack, ExTwoSplits, ExFullwidth}

NormInputs == BoundedStr(MaxLen) \cup NormExamples

InitNorm ==
    /\ nIn \in NormInputs
    /\ nOut = <<>> /\ nOut2 = <<>> /\ nPc = "in"
    /\ pack = EmptyPack
    /\ ResolverIdle
    /\ CallsIdle
    /\ IngestIdle
    /\ ScoringIdle /\ OutputIdle

\* nOut = _norm_for_match(nIn)
Normalize ==
    /\ nPc = "in"
    /\ nOut' = NormForMatch(nIn)
    /\ nPc' = "once"
    /\ UNCHANGED <<nIn, nOut2, pack, evidence_id, quote, result, rPc, calls, Ingest, Scoring, Writing, Running>>

\* nOut2 = _norm_for_match(nOut)
Renormalize ==
    /\ nPc = "once"
    /\ nOut2' = NormForMatch(nOut)
    /\ nPc' = "twice"
    /\ UNCHANGED <<nIn, nOut, pack, evidence_id, quote, result, rPc, calls, Ingest, Scoring, Writing, Running>>

NextNorm == Normalize \/ Renormalize

SpecNorm == InitNorm /\ [][NextNorm]_vars

-----------------------------------------------------------------------------
(* The resolver called on the evidence items of an agent, one at a time *)

\* chunk_id and page of the chunks of a pack, in document order
ChunkIdAt   == <<"p01_c01", "p03_c01", "p03_c02", "p05_c01">>
ChunkPageAt == <<1, 3, 3, 5>>

\* table_id and page of the tables of a pack, in document order
TableIdAt   == <<"p02_t01", "p03_t01", "p04_t01">>
TablePageAt == <<2, 3, 4>>

TxAB      == <<"a", "SP", "b">>
TxSplit   == <<"A", "HY", "LF", "b">>
TxQuoted  == <<"c", "LDQ", "a", "SP", "SP", "b", "RDQ">>

ChunkTexts == {TxAB, TxSplit, TxQuoted}
TableTexts == {TxAB, TxSplit, NoneStr}

\* the text chunks of a pack: chunk_id p<page>_c<seq>, text, provenance.page
ChunkSeqs ==
    UNION {{[i \in 1..n |-> [chunk_id |-> ChunkIdAt[i],
                             text     |-> tx[i],
                             page     |-> ChunkPageAt[i]]] : tx \in [1..n -> ChunkTexts]}
             : n \in 0..MaxChunks}

\* the tables of a pack: table_id p<page>_t<seq>, text_fallback, provenance.page
TableSeqs ==
    UNION {{[j \in 1..m |-> [table_id      |-> TableIdAt[j],
                             text_fallback |-> tb[j],
                             page          |-> TablePageAt[j]]] : tb \in [1..m -> TableTexts]}
             : m \in 0..MaxTables}

Packs == {[text_chunks |-> cs, tables |-> ts] : cs \in ChunkSeqs, ts \in TableSeqs}

\* the evidence ids a model produces
ClaimedIds ==
    {NoneStr, <<>>, <<"SP">>}
    \cup {<<"Text", "SP", k>> : k \in {"p01_c01", "p03_c01", "p99_c99", "p02_t01", "P03_c01"}}
    \cup {<<"Table", "SP", k>> : k \in {"p02_t01", "p03_t01", "p03_c01"}}
    \cup {<<"p03_c01">>, <<"p02_t01">>,
          <<"text", "SP", "p03_c01">>,
          <<"Text", "p01_c01">>,
          <<"SP", "Text", "SP", "SP", "p03_c01", "SP">>,
          <<"see", "SP", "Table", "SP", "p02_t01">>}

\* the quotes a model produces
Quotes ==
    {NoneStr, <<>>, <<"SP">>,
     <<"a", "SP", "b">>,
     <<"a", "b">>,
     <<"DQ", "A", "LF", "b">>,
     <<"SP", "b", "SP">>,
     <<"d">>}

InitResolve ==
    /\ pack \in Packs
    /\ evidence_id = <<>> /\ quote = <<>> /\ result = NoneNone /\ rPc = "ready"
    /\ NormIdle
    /\ CallsIdle
    /\ IngestIdle
    /\ ScoringIdle /\ OutputIdle

\* rid, page = resolve_evidence_id_and_page(pack, it.get("id"), it.get("quote"))
Resolve ==
    /\ rPc = "ready"
    /\ \E eid \in ClaimedIds, q \in Quotes :
          /\ evidence_id' = eid
          /\ quote' = q
          /\ result' = resolve_evidence_id_and_page(pack, eid, q)
    /\ rPc' = "returned"
    /\ UNCHANGED <<nIn, nOut, nOut2, nPc, pack, calls, Ingest, Scoring, Writing, Running>>

\* the caller goes on to its next evidence item
NextItem ==
    /\ rPc = "returned"
    /\ evidence_id' = <<>> /\ quote' = <<>> /\ result' = NoneNone
    /\ rPc' = "ready"
    /\ UNCHANGED <<nIn, nOut, nOut2, nPc, pack, calls, Ingest, Scoring, Writing, Running>>

NextResolve == Resolve \/ NextItem

SpecResolve == InitResolve /\ [][NextResolve]_vars

-----------------------------------------------------------------------------
(* Concurrent resolver calls over one pack.  A frame holds the locals of   *)
(* one call; a step runs one call up to its next read of the pack.         *)

Callers == 1..NumCalls

IdleFrame == [pc |-> "idle", evidence_id |-> <<>>, quote |-> <<>>, q |-> <<>>,
              key |-> "", nq |-> <<>>, i |-> 0, ret |-> NoneNone]

\* the packs the concurrent calls run over: MaxChunks chunks and MaxTables tables
ConcPacks ==
    {p \in Packs :
        /\ Len(p.text_chunks) = MaxChunks
        /\ Len(p.tables) = MaxTables
        /\ \A i \in 1..(MaxChunks - 1) : p.text_chunks[i].text = TxQuoted
        /\ \A j \in 1..(MaxTables - 1) : p.tables[j].text_fallback = TxSplit
        /\ p.text_chunks[MaxChunks].text \in {TxAB, TxSplit}
        /\ p.tables[MaxTables].text_fallback \in {TxAB, NoneStr}}

\* the evidence items of the concurrent calls, as <<id, quote>>
ConcItems ==
    {<<(<<"Text", "SP", "p03_c01">>), (<<"a", "b">>)>>,
     <<(<<"Table", "SP", "p02_t01">>), (<<"a", "SP", "b">>)>>,
     <<NoneStr, (<<"d">>)>>,
     <<(<<"Text", "SP", "p99_c99">>), NoneStr>>}

InitConc ==
    /\ pack \in ConcPacks
    /\ calls = [c \in Callers |-> IdleFrame]
    /\ NormIdle
    /\ ResolverIdle
    /\ IngestIdle
    /\ ScoringIdle /\ OutputIdle

Others == <<nIn, nOut, nOut2, nPc, evidence_id, quote, result, rPc, Ingest, Scoring, Writing, Running>>

\* the nq that the scans of call c compare with: a module-level name shared
\* by the calls instead of a local
SharedNq(c) == calls[1].nq

\* the nq that the scans of call c compare with: its local
LocalNq(c) == calls[c].nq

\* a caller enters resolve_evidence_id_and_page(pack, eid, qt)
Call(c) ==
    /\ calls[c].pc = "idle"
    /\ \E it \in ConcItems :
          calls' = [calls EXCEPT ![c] =
                       [IdleFrame EXCEPT !.pc = "entry", !.evidence_id = it[1], !.quote = it[2]]]
    /\ UNCHANGED pack
    /\ UNCHANGED Others

\* the two strips and the re.search on the id
Entry(c) ==
    /\ calls[c].pc = "entry"
    /\ LET eid == Strip(OrEmpty(calls[c].evidence_id))
           q   == Strip(OrEmpty(calls[c].quote))
           m   == IdSearch(eid)
       IN  calls' = [calls EXCEPT ![c] =
              IF eid # <<>> /\ m.matched
              THEN [@ EXCEPT !.q = q, !.key = m.key, !.i = 1,
                             !.pc = IF m.kind = "text" THEN "fast_text" ELSE "fast_table"]
              ELSE [@ EXCEPT !.q = q, !.pc = "repair"]]
    /\ UNCHANGED pack
    /\ UNCHANGED Others

\* one turn of: for c in pack.text_chunks: if c.chunk_id == key: ...
FastTextStep(c) ==
    /\ calls[c].pc = "fast_text"
    /\ LET f == calls[c]
       IN  calls' = [calls EXCEPT ![c] =
              IF f.i > Len(pack.text_chunks) THEN [@ EXCEPT !.pc = "repair"]
              ELSE IF pack.text_chunks[f.i].chunk_id = f.key
                      /\ ChunkAccepts(pack.text_chunks[f.i], f.q)
                   THEN [@ EXCEPT !.ret = TextResult(pack.text_chunks[f.i]), !.pc = "done"]
                   ELSE [@ EXCEPT !.i = f.i + 1]]
    /\ UNCHANGED pack
    /\ UNCHANGED Others

\* one turn of: for t in pack.tables: if t.table_id == key: ...
FastTableStep(c) ==
    /\ calls[c].pc = "fast_table"
    /\ LET f == calls[c]
       IN  calls' = [calls EXCEPT ![c] =
              IF f.i > Len(pack.tables) THEN [@ EXCEPT !.pc = "repair"]
              ELSE IF pack.tables[f.i].table_id = f.key
                      /\ TableAccepts(pack.tables[f.i], f.q)
                   THEN [@ EXCEPT !.ret = TableResult(pack.tables[f.i]), !.pc = "done"]
                   ELSE [@ EXCEPT !.i = f.i + 1]]
    /\ UNCHANGED pack
    /\ UNCHANGED Others

\* nq = _norm_for_match(quote); if not nq: return None, None
RepairStep(c) ==
    /\ calls[c].pc = "repair"
    /\ LET nq == NormForMatch(calls[c].q)
       IN  calls' = [calls EXCEPT ![c] =
              IF nq = <<>>
              THEN [@ EXCEPT !.nq = nq, !.ret = NoneNone, !.pc = "done"]
              ELSE [@ EXCEPT !.nq = nq, !.i = 1, !.pc = "scan_chunks"]]
    /\ UNCHANGED pack
    /\ UNCHANGED Others

\* one turn of: for c in pack.text_chunks: if nq in _norm_for_match(c.text)
ScanChunkStep(c) ==
    /\ calls[c].pc = "scan_chunks"
    /\ LET f == calls[c]
       IN  calls' = [calls EXCEPT ![c] =
              IF f.i > Len(pack.text_chunks) THEN [@ EXCEPT !.i = 1, !.pc = "scan_tables"]
              ELSE IF IsSubstr(LocalNq(c), NormForMatch(pack.text_chunks[f.i].text))
                   THEN [@ EXCEPT !.ret = TextResult(pack.text_chunks[f.i]), !.pc = "done"]
                   ELSE [@ EXCEPT !.i = f.i + 1]]
    /\ UNCHANGED pack
    /\ UNCHANGED Others

\* one turn of: for t in pack.tables: if nq in _norm_for_match(blob)
ScanTableStep(c) ==
    /\ calls[c].pc = "scan_tables"
    /\ LET f == calls[c]
       IN  calls' = [calls EXCEPT ![c] =
              IF f.i > Len(pack.tables) THEN [@ EXCEPT !.ret = NoneNone, !.pc = "done"]
              ELSE IF IsSubstr(LocalNq(c),
                               NormForMatch(OrEmpty(pack.tables[f.i].text_fallback)))
                   THEN [@ EXCEPT !.ret = TableResult(pack.tables[f.i]), !.pc = "done"]
                   ELSE [@ EXCEPT !.i = f.i + 1]]
    /\ UNCHANGED pack
    /\ UNCHANGED Others

\* the caller takes the pair returned and drops the frame
Return(c) ==
    /\ calls[c].pc = "done"
    /\ calls' = [calls EXCEPT ![c] = IdleFrame]
    /\ UNCHANGED pack
    /\ UNCHANGED Others

NextConc ==
    \E c \in Callers :
        \/ Call(c)
        \/ Entry(c)
        \/ FastTextStep(c)
        \/ FastTableStep(c)
        \/ RepairStep(c)
        \/ ScanChunkStep(c)
        \/ ScanTableStep(c)
        \/ Return(c)

SpecConc == InitConc /\ [][NextConc]_vars

-----------------------------------------------------------------------------
(* _fix_table_grid applied to bounded grids *)

CellAction     == <<"A", "c", "t", "i", "o", "n">>
CellOwner      == <<"O", "w", "n", "e", "r">>
CellImplemente == <<"I", "m", "p", "l", "e", "m", "e", "n", "t", "e">>
CellD          == <<"d">>
CellDate       == <<"D", "a", "t", "e">>
CellAB         == <<"a", "SP", "b">>
CellPadded     == <<"SP", "a", "LF", "b", "SP">>
CellTo         == <<"t", "o">>
CellMoHy       == <<"m", "o", "HY">>
CellPara == <<"a", "SP", "b", "SP", "c", "SP", "d", "SP", "e", "SP", "f", "SP",
              "a", "SP", "b", "SP", "c", "SP", "d", "SP", "e", "SP", "f", "DOT">>
CellLong == [i \in 1..40 |-> "a"]
CellCTo  == <<"c", "SP", "t", "o">>
CellDateOfBirth == <<"D", "a", "t", "e", "SP", "o", "f", "SP", "b", "i", "r", "t", "h">>

RowAction  == <<CellAction, <<>>, <<>>>>
RowOwner   == <<CellOwner, CellImplemente, <<>>>>
RowDDate   == <<<<>>, CellD, CellDate>>
RowData    == <<CellAB, <<"1">>, <<"c">>>>
RowFull    == <<<<"a">>, <<"b">>, <<"c">>>>
RowCont    == <<<<>>, CellTo, <<>>>>
RowBlank   == <<<<>>, <<>>, <<>>>>
RowNones   == <<NoneStr, CellPadded, NoneStr>>
RowShort   == <<<<"a">>>>
RowEmpty   == <<>>
RowMoHy    == <<CellMoHy, <<>>>>
RowTwo     == <<CellAB, <<"1">>>>
RowTh      == <<<<"t", "h">>, <<>>>>
RowParaThin == <<<<>>, CellLong, <<>>>>
RowDigitGap == <<<<"1">>, <<>>, <<>>>>
RowDateOf   == <<CellDateOfBirth, <<>>, <<>>>>
RowWideFull == [i \in 1..7 |-> <<"A">>]
RowWideOne  == [i \in 1..7 |-> IF i = 1 THEN <<"c">> ELSE <<>>]

\* the rows the enumerated grids are made of
GridRows == {RowAction, RowOwner, RowDDate, RowData, RowCont, RowNones, RowShort,
             RowEmpty, NoneRow, RowMoHy}

BoundedGrids(n) == UNION {[1..k -> GridRows] : k \in 0..n}

\* a header split over three rows, above two data rows
ExSplitHeader == <<RowAction, RowOwner, RowDDate, RowData, RowFull>>

\* the rows below a split header
DataRows == {RowData, RowFull, RowCont, RowNones}

\* the three header fragments above any two of those rows
SplitHeaderGrids == {<<RowAction, RowOwner, RowDDate, d1, d2>> : d1, d2 \in DataRows}

\* eleven header fragments above a data row
ExLongHeader == <<RowAction, RowOwner, RowDDate, RowAction, RowOwner, RowDDate,
                  RowAction, RowOwner, RowDDate, RowAction, RowOwner, RowData>>

\* a header fragment above a sparse row with a digit, above a sparse row with
\* a long cell; a one-fragment header of three words; a header hyphenated
\* over two rows; a two-column table of full rows; a seven-column table with
\* a row of one filled cell
GridExamples ==
    SplitHeaderGrids
      \cup {NoneGrid, ExLongHeader,
            <<RowAction, RowDigitGap, RowData>>,
            <<RowAction, RowParaThin, RowData>>,
            <<RowDateOf, RowData, RowFull>>,
            <<RowMoHy, RowTh, RowTwo>>,
            <<RowTwo, RowTwo, RowTwo>>,
            <<RowWideFull, RowWideOne, RowWideFull>>}

Grids == BoundedGrids(MaxGridRows) \cup GridExamples

InitGrid ==
    /\ gIn \in Grids
    /\ gHeader = <<>> /\ gRows = <<>> /\ gPc = "in"
    /\ pack = EmptyPack
    /\ NormIdle /\ ResolverIdle /\ CallsIdle /\ StitchIdle /\ ExtractIdle /\ ScoringIdle /\ OutputIdle

Resolving == <<nIn, nOut, nOut2, nPc, pack, evidence_id, quote, result, rPc, calls>>

\* header, rows = _fix_table_grid(grid)
FixGrid ==
    /\ gPc = "in"
    /\ gHeader' = FixTableGrid(gIn).header
    /\ gRows' = FixTableGrid(gIn).body
    /\ gPc' = "fixed"
    /\ UNCHANGED <<gIn, sIn, sOut, sPc, doc, last_header_by_sig, last_row_by_sig,
                   tables_out, xNext, xLast>>
    /\ UNCHANGED <<Resolving, Scoring, Writing, Running>>


-----------------------------------------------------------------------------
(* _merge_continuation_rows applied to bounded bodies *)

\* the rows the enumerated bodies are made of: rectangular, every cell
\* a value of _norm_cell
BodyRows ==
    [1..3 -> {<<>>, <<"a">>}]
      \cup {<<CellAB, CellAB, CellAB>>, <<<<>>, CellAB, <<>>>>, <<CellAB, <<>>, <<"c">>>>}

Bodies == UNION {[1..k -> BodyRows] : k \in 0..MaxBodyRows}

InitStitch ==
    /\ sIn \in Bodies
    /\ sOut = <<>> /\ sPc = "in"
    /\ pack = EmptyPack
    /\ NormIdle /\ ResolverIdle /\ CallsIdle /\ GridIdle /\ ExtractIdle /\ ScoringIdle /\ OutputIdle

\* body = _merge_continuation_rows(body, cont_fill_max=2)
Stitch ==
    /\ sPc = "in"
    /\ sOut' = MergeContinuationRows(sIn, 2)
    /\ sPc' = "out"
    /\ UNCHANGED <<gIn, gHeader, gRows, gPc, sIn, doc, last_header_by_sig,
                   last_row_by_sig, tables_out, xNext, xLast>>
    /\ UNCHANGED <<Resolving, Scoring, Writing, Running>>

NextStitch == Stitch

SpecStitch == InitStitch /\ [][NextStitch]_vars

-----------------------------------------------------------------------------
(* extract_tables_from_pdf run on bounded documents *)


RowHead      == <<<<"A">>, <<"B">>, <<"H">>>>
RowHeadAB    == <<<<"A">>, <<"B">>, <<>>>>
RowNum       == <<<<"a">>, <<"1">>, <<"b">>>>
RowUnfin     == <<CellCTo, <<"d">>, <<"e">>>>
RowSparse    == <<<<>>, <<"f">>, <<>>>>
RowParaFull  == <<<<"c">>, CellPara, <<"d">>>>

\* table.bbox: <<x0, y0, x1, y1>>
BoxA  == <<50, 100, 500, 300>>
BoxA2 == <<54, 90, 496, 200>>
BoxB  == <<45, 100, 500, 300>>

\* the tables the enumerated documents are made of: the grid table.extract()
\* returns, or raises = TRUE where it raises, and table.bbox
TableInputs ==
    {[grid |-> <<RowHead, RowNum, RowUnfin>>,    bbox |-> BoxA,   raises |-> FALSE],
     [grid |-> <<RowHead, RowSparse, RowNum>>,   bbox |-> BoxA2,  raises |-> FALSE],
     [grid |-> <<RowParaThin, RowNum>>,          bbox |-> BoxA,   raises |-> FALSE],
     [grid |-> <<RowParaFull, RowSparse, RowNum, RowShort>>,
                                                 bbox |-> BoxA,   raises |-> FALSE],
     [grid |-> <<RowHeadAB, RowHead, RowNum>>,   bbox |-> BoxA,   raises |-> FALSE],
     [grid |-> <<RowHead, RowNum>>,              bbox |-> BoxB,   raises |-> FALSE],
     [grid |-> <<RowHead>>,                      bbox |-> BoxA,   raises |-> FALSE],
     [grid |-> <<RowHead, RowNum>>,              bbox |-> NoBBox, raises |-> FALSE],
     [grid |-> <<RowMoHy, RowTwo>>,              bbox |-> BoxA,   raises |-> FALSE],
     [grid |-> <<RowBlank, RowBlank>>,           bbox |-> BoxA,   raises |-> FALSE],
     [grid |-> <<>>,                             bbox |-> BoxA,   raises |-> TRUE]}

Docs == UNION {[1..k -> TableInputs] : k \in 0..MaxDocTables}

\* page_no of the k-th table of a document
DocPageAt == <<1, 2, 2, 4, 5>>

\* ti of the k-th table of a document: its place among the tables of its page
TableIndex(k) == 1 + Cardinality({j \in 1..(k - 1) : DocPageAt[j] = DocPageAt[k]})

InitExtract ==
    /\ doc \in Docs
    /\ xNext = 1
    /\ tables_out = <<>>
    /\ last_header_by_sig = <<>> /\ last_row_by_sig = <<>>
    /\ xLast = NoLocals
    /\ pack = EmptyPack
    /\ NormIdle /\ ResolverIdle /\ CallsIdle /\ GridIdle /\ StitchIdle /\ ScoringIdle /\ OutputIdle

\* grid = table.extract() raises: continue
ExtractRaises ==
    /\ xNext >= 1 /\ xNext <= Len(doc)
    /\ doc[xNext].raises
    /\ xNext' = xNext + 1
    /\ UNCHANGED <<gIn, gHeader, gRows, gPc, sIn, sOut, sPc, doc, last_header_by_sig,
                   last_row_by_sig, tables_out, xLast>>
    /\ UNCHANGED <<Resolving, Scoring, Writing, Running>>

\* if not grid or len(grid) < 2: continue
SkipShortGrid ==
    /\ xNext >= 1 /\ xNext <= Len(doc)
    /\ ~doc[xNext].raises
    /\ IsShortGrid(doc[xNext].grid)
    /\ xNext' = xNext + 1
    /\ UNCHANGED <<gIn, gHeader, gRows, gPc, sIn, sOut, sPc, doc, last_header_by_sig,
                   last_row_by_sig, tables_out, xLast>>
    /\ UNCHANGED <<Resolving, Scoring, Writing, Running>>

\* the rest of the loop body: the grid is cleaned, the multi-page handling
\* applied, and the table appended to tables_out unless it is empty
ProcessTable ==
    /\ xNext >= 1 /\ xNext <= Len(doc)
    /\ ~doc[xNext].raises
    /\ ~IsShortGrid(doc[xNext].grid)
    /\ \E t \in {doc[xNext]} :
       \E h \in {HandleTable(t.grid, t.bbox, last_header_by_sig, last_row_by_sig)} :
           /\ gIn' = t.grid
           /\ gHeader' = h.fixed.header
           /\ gRows' = h.fixed.body
           /\ gPc' = "fixed"
           /\ last_header_by_sig' = h.last_header_by_sig
           /\ last_row_by_sig' = h.last_row_by_sig
           /\ xLast' = [sig |-> h.sig, prev_header |-> h.prev_header,
                        case1 |-> h.case1, case2 |-> h.case2, stitch |-> h.stitch,
                        first |-> h.first, merged |-> h.merged, emit |-> h.emit]
           /\ tables_out' =
                IF h.emit
                THEN Append(tables_out,
                            [page |-> DocPageAt[xNext],
                             table_id |-> <<DocPageAt[xNext], TableIndex(xNext)>>,
                             header |-> h.header, rows |-> h.rows, bbox |-> t.bbox])
                ELSE tables_out
    /\ xNext' = xNext + 1
    /\ UNCHANGED <<sIn, sOut, sPc, doc>>
    /\ UNCHANGED <<Resolving, Scoring, Writing, Running>>

\* the cleaner called on a grid, or the extraction run on a document
InitTables == InitGrid \/ InitExtract

NextTables == FixGrid \/ ExtractRaises \/ SkipShortGrid \/ ProcessTable

SpecTables == InitTables /\ [][NextTables]_vars

-----------------------------------------------------------------------------
(* run(pack) of the scoring agents on bounded replies of the model *)

\* the evidence items of a reply
ItemResolved   == [id |-> <<"Text", "SP", "p01_c01">>, quote |-> TxAB,
                   evidence_type |-> <<"positive">>]
ItemPadded     == [id |-> <<"SP", "Text", "SP", "p99_c99", "SP">>,
                   quote |-> <<"SP", "d", "SP">>,
                   evidence_type |-> <<"SP", "negative">>]
ItemNones      == [id |-> NoneStr, quote |-> NoneStr, evidence_type |-> NoneStr]
ItemRepaired   == [id |-> <<"Text", "SP", "p01_c01">>, quote |-> <<"b", "y">>,
                   evidence_type |-> <<"positive">>]
ItemUnverified == [id |-> <<"Text", "SP", "p01_c01">>, quote |-> <<"d">>,
                   evidence_type |-> <<"negative">>]

EvidenceItems == {ItemResolved, ItemPadded, ItemNones, ItemRepaired, ItemUnverified}

EvidenceLists == UNION {[1..k -> EvidenceItems] : k \in 0..MaxEvidence}

Ratings == {"GOOD", "SOME", "LITTLE"}

Rationales ==
    {NoneStr,
     <<"A", "c", "t", "i", "o", "n", "s", "SP", "a", "r", "e", "SP",
       "p", "r", "e", "s", "e", "n", "t">>}

Agents == {"D1", "D2", "D6", "D7", "D8"}

\* the dicts _parse_response returns
Replies ==
    {[rating |-> ra, rationale |-> rt, evidence |-> ev, uncertainty |-> u] :
        ra \in Ratings, rt \in Rationales, ev \in EvidenceLists, u \in BOOLEAN}

\* the pack the agents run on
AgentPack ==
    [text_chunks |-> <<[chunk_id |-> ChunkIdAt[1], text |-> TxAB,
                        page |-> ChunkPageAt[1]],
                       [chunk_id |-> ChunkIdAt[2], text |-> <<"c", "SP", "b", "y">>,
                        page |-> ChunkPageAt[2]]>>,
     tables |-> <<>>]

\* parsed = self._parse_response(raw_response)
InitAgents ==
    /\ agent \in Agents
    /\ response \in Replies
    /\ parsed = response
    /\ enriched = <<>> /\ aNext = 1 /\ aPc = "parsed"
    /\ returned = NoReturn
    /\ pack = AgentPack
    /\ NormIdle /\ ResolverIdle /\ CallsIdle /\ IngestIdle /\ OutputIdle

NotScoring == <<nIn, nOut, nOut2, nPc, pack, evidence_id, quote, result, rPc, calls,
                Ingest, agent, response, Writing, Running>>

\* parsed = self._apply_guards(parsed), which D1 has not
ApplyGuards ==
    /\ aPc = "parsed"
    /\ agent # "D1"
    /\ parsed' = ApplyGuardsOf(agent, parsed)
    /\ aPc' = "guarded"
    /\ UNCHANGED <<enriched, aNext, returned>>
    /\ UNCHANGED NotScoring

\* _add_pages_to_evidence is entered
EntersAddPages ==
    \/ agent = "D1" /\ aPc = "parsed"
    \/ agent # "D1" /\ aPc = "guarded"

\* _add_pages_to_evidence: if not evidence: return result
AddPagesEmpty ==
    /\ EntersAddPages
    /\ parsed.evidence = <<>>
    /\ aPc' = "enriched"
    /\ UNCHANGED <<parsed, enriched, aNext, returned>>
    /\ UNCHANGED NotScoring

\* _add_pages_to_evidence: the loop body, for the next evidence item
AddPagesItem ==
    /\ EntersAddPages \/ aPc = "enriching"
    /\ aNext <= Len(parsed.evidence)
    /\ \E r \in {ResolvedFor(pack, parsed.evidence[aNext])} :
          /\ enriched' = Append(enriched, EnrichedItem(parsed.evidence[aNext], r))
          /\ parsed' = [parsed EXCEPT !.uncertainty = UncertaintyAfter(@, r)]
    /\ aNext' = aNext + 1
    /\ aPc' = "enriching"
    /\ UNCHANGED returned
    /\ UNCHANGED NotScoring

\* _add_pages_to_evidence: result["evidence"] = enriched; return result
AddPagesDone ==
    /\ aPc = "enriching"
    /\ aNext > Len(parsed.evidence)
    /\ parsed' = [parsed EXCEPT !.evidence = enriched]
    /\ aPc' = "enriched"
    /\ UNCHANGED <<enriched, aNext, returned>>
    /\ UNCHANGED NotScoring

\* D1.run: the checks of the rating against the evidence
ChecksAfter ==
    /\ agent = "D1"
    /\ aPc = "enriched"
    /\ parsed' = ChecksD1(parsed)
    /\ aPc' = "checked"
    /\ UNCHANGED <<enriched, aNext, returned>>
    /\ UNCHANGED NotScoring

\* return {"agent_id": ..., "rating": ..., "rationale": ..., "evidence": ...,
\*         "uncertainty": ...}
ReturnDict ==
    /\ \/ agent = "D1" /\ aPc = "checked"
       \/ agent # "D1" /\ aPc = "enriched"
    /\ returned' = [agent_id |-> agent, rating |-> parsed.rating,
                    rationale |-> parsed.rationale, evidence |-> parsed.evidence,
                    uncertainty |-> parsed.uncertainty]
    /\ aPc' = "returned"
    /\ UNCHANGED <<parsed, enriched, aNext>>
    /\ UNCHANGED NotScoring

NextAgents ==
    \/ ApplyGuards
    \/ AddPagesEmpty
    \/ AddPagesItem
    \/ AddPagesDone
    \/ ChecksAfter
    \/ ReturnDict

SpecAgents == InitAgents /\ [][NextAgents]_vars

-----------------------------------------------------------------------------
(* _write_csv applied to bounded tables, and the file read back *)

\* most columns and most body rows of an enumerated table
MaxCsvCols == 2
MaxCsvRows == 1

\* the cells the enumerated tables are made of
CsvCells == {<<>>, <<"a">>, <<"COMMA">>, <<"DQ">>, <<"LF">>, <<"CR">>,
             <<"DQ", "a">>}

\* a header and a rectangular body of that width
CsvTables ==
    UNION {[header : [1..n -> CsvCells],
            rows : UNION {[1..m -> [1..n -> CsvCells]] : m \in 0..MaxCsvRows}]
           : n \in 1..MaxCsvCols}

\* the position after the line terminator that starts at position i
AfterEol(s, i) ==
    IF s[i] = "CR" /\ i < Len(s) /\ s[i + 1] = "LF" THEN i + 2 ELSE i + 1

\* a CSV reader of the default dialect (delimiter ',', quotechar '"',
\* doublequote, not strict; the file opened with newline=''), from position i
\* on: st is the state of the reader, field the field being read, row the
\* fields of the record being read.
\*   "SR" start of a record     "SF" start of a field   "IF" in a field
\*   "IQ" in a quoted field     "QQ" after a quote in a quoted field
RECURSIVE ReadFrom(_, _, _, _, _)
ReadFrom(s, i, st, field, row) ==
    IF i > Len(s)
    THEN IF st = "SR" THEN <<>> ELSE <<Append(row, field)>>
    ELSE LET c == s[i]
             eol == c \in {"LF", "CR"}
         IN  CASE st = "IQ" /\ c = "DQ" -> ReadFrom(s, i + 1, "QQ", field, row)
               [] st = "IQ" /\ c # "DQ" ->
                      ReadFrom(s, i + 1, "IQ", Append(field, c), row)
               [] st = "SR" /\ eol ->
                      <<<<>>>> \o ReadFrom(s, AfterEol(s, i), "SR", <<>>, <<>>)
               [] st \in {"SF", "IF", "QQ"} /\ eol ->
                      <<Append(row, field)>>
                          \o ReadFrom(s, AfterEol(s, i), "SR", <<>>, <<>>)
               [] st \in {"SR", "SF", "IF", "QQ"} /\ c = "COMMA" ->
                      ReadFrom(s, i + 1, "SF", <<>>, Append(row, field))
               [] st \in {"SR", "SF"} /\ c = "DQ" ->
                      ReadFrom(s, i + 1, "IQ", <<>>, row)
               [] st = "QQ" /\ c = "DQ" ->
                      ReadFrom(s, i + 1, "IQ", Append(field, c), row)
               [] OTHER -> ReadFrom(s, i + 1, "IF", Append(field, c), row)

\* list(csv.reader(f))
ReadCsv(s) == ReadFrom(s, 1, "SR", <<>>, <<>>)

InitCsv ==
    /\ \E t \in CsvTables : wHeader = t.header /\ wRows = t.rows
    /\ wFile = <<>> /\ wParsed = <<>> /\ wPc = "in"
    /\ NormIdle /\ ResolverIdle /\ CallsIdle /\ IngestIdle /\ ScoringIdle
    /\ RunningIdle /\ pack = EmptyPack

NotWriting == <<nIn, nOut, nOut2, nPc, pack, evidence_id, quote, result, rPc, calls,
                Ingest, Scoring, Running, wHeader, wRows>>

\* _write_csv(csv_path, header, rows)
Write ==
    /\ wPc = "in"
    /\ wFile' = WriteCsv(wHeader, wRows)
    /\ wPc' = "written"
    /\ UNCHANGED <<NotWriting, wParsed>>

\* the file is read back with a CSV reader
ReadBack ==
    /\ wPc = "written"
    /\ wParsed' = ReadCsv(wFile)
    /\ wPc' = "read"
    /\ UNCHANGED <<NotWriting, wFile>>

NextCsv == Write \/ ReadBack

SpecCsv == InitCsv /\ [][NextCsv]_vars

-----------------------------------------------------------------------------
(* scripts/run_report.py: main, for every combination of flags and files *)

\* the flags parse_args returns (each action="store_true")
Flags == [no_ingest : BOOLEAN, agents : BOOLEAN, laj : BOOLEAN, html : BOOLEAN,
          html_only : BOOLEAN, force : BOOLEAN]

\* the files that exist when main is called: the pdf, and under report_out
\* evidence_pack.json, agent_results.json, laj_results.json, agent_results.html
Files == [pdf : BOOLEAN, pack : BOOLEAN, agents : BOOLEAN, laj : BOOLEAN,
          html : {FALSE}]

InitCli ==
    /\ args \in Flags
    /\ fs \in Files
    /\ loc = NoDecision /\ ran = <<>> /\ cPc = "start"
    /\ NormIdle /\ ResolverIdle /\ CallsIdle /\ IngestIdle /\ ScoringIdle
    /\ WritingIdle /\ pack = EmptyPack

NotRunning == <<nIn, nOut, nOut2, nPc, pack, evidence_id, quote, result, rPc, calls,
                Ingest, Scoring, Writing, args>>

\* do_ingest as main decides it
DoIngest(a, have_pack, need_pack_obj) ==
    IF need_pack_obj THEN ~have_pack \/ a.force ELSE FALSE

\* main, up to "pack = None": the pdf must exist, then the steps are decided
Decide ==
    /\ cPc = "start"
    /\ IF ~fs.pdf
       THEN /\ cPc' = "raised"
            /\ UNCHANGED loc
       ELSE LET have_pack == fs.pack
                have_agents == fs.agents
                do_laj == IF args.html_only THEN FALSE ELSE args.laj
                do_agents0 == IF args.html_only THEN FALSE ELSE args.agents
                do_agents == IF do_laj /\ ~args.agents
                             THEN ~have_agents \/ args.force
                             ELSE do_agents0
                need_pack_obj == do_agents \/ do_laj
            IN  /\ loc' = [do_ingest |-> DoIngest(args, have_pack, need_pack_obj),
                           do_agents |-> do_agents,
                           do_laj |-> do_laj,
                           do_html |-> args.html \/ args.html_only,
                           need_pack_obj |-> need_pack_obj,
                           pack |-> FALSE]
                /\ cPc' = "decided"
    /\ UNCHANGED <<NotRunning, fs, ran>>

\* if do_ingest: text and tables are extracted, the pack is built and saved
IngestStep ==
    /\ cPc = "decided" /\ loc.do_ingest
    /\ ran' = Append(ran, "ingest")
    /\ fs' = [fs EXCEPT !.pack = TRUE]
    /\ loc' = [loc EXCEPT !.pack = TRUE]
    /\ cPc' = "ingested"
    /\ UNCHANGED NotRunning

\* else: the pack is loaded when it is needed and evidence_pack.json exists
SkipIngest ==
    /\ cPc = "decided" /\ ~loc.do_ingest
    /\ loc' = [loc EXCEPT !.pack = loc.need_pack_obj /\ fs.pack]
    /\ cPc' = "ingested"
    /\ UNCHANGED <<NotRunning, fs, ran>>

\* if need_pack_obj and pack is None: raise RuntimeError
RequirePack ==
    /\ cPc = "ingested"
    /\ cPc' = IF loc.need_pack_obj /\ ~loc.pack THEN "raised" ELSE "packed"
    /\ UNCHANGED <<NotRunning, fs, loc, ran>>

\* if do_agents: the agents run and agent_results.json is written
RunAgents ==
    /\ cPc = "packed"
    /\ IF loc.do_agents
       THEN /\ ran' = Append(ran, "agents")
            /\ fs' = [fs EXCEPT !.agents = TRUE]
       ELSE UNCHANGED <<fs, ran>>
    /\ cPc' = "agents"
    /\ UNCHANGED <<NotRunning, loc>>

\* if args.laj: agent_results.json must exist, then LaJ runs and
\* laj_results.json is written
RunLaj ==
    /\ cPc = "agents"
    /\ IF args.laj
       THEN IF ~fs.agents
            THEN /\ cPc' = "raised"
                 /\ UNCHANGED <<fs, ran>>
            ELSE /\ ran' = Append(ran, "laj")
                 /\ fs' = [fs EXCEPT !.laj = TRUE]
                 /\ cPc' = "laj"
       ELSE /\ cPc' = "laj"
            /\ UNCHANGED <<fs, ran>>
    /\ UNCHANGED <<NotRunning, loc>>

\* if args.html or args.html_only: agent_results.json must exist, then the
\* report is rendered
RenderHtml ==
    /\ cPc = "laj"
    /\ IF args.html \/ args.html_only
       THEN IF ~fs.agents
            THEN /\ cPc' = "raised"
                 /\ UNCHANGED <<fs, ran>>
            ELSE /\ ran' = Append(ran, "html")
                 /\ fs' = [fs EXCEPT !.html = TRUE]
                 /\ cPc' = "done"
       ELSE /\ cPc' = "done"
            /\ UNCHANGED <<fs, ran>>
    /\ UNCHANGED <<NotRunning, loc>>

NextCli ==
    \/ Decide
    \/ IngestStep
    \/ SkipIngest
    \/ RequirePack
    \/ RunAgents
    \/ RunLaj
    \/ RenderHtml

SpecCli == InitCli /\ [][NextCli]_vars

-----------------------------------------------------------------------------
(* Properties of the normaliser, under SpecNorm *)

PlainChar(c) ==
    CASE c \in CurlyDouble -> "DQ"
      [] c \in CurlySingle -> "SQ"
      [] OTHER             -> LowerChar(c)

Plain(s) == [i \in 1..Len(s) |-> PlainChar(s[i])]

\* every space of s doubled
RECURSIVE DoubleSpaces(_)
DoubleSpaces(s) ==
    IF s = <<>> THEN <<>>
    ELSE (IF Head(s) = "SP" THEN <<"SP", "SP">> ELSE <<Head(s)>>) \o DoubleSpaces(Tail(s))

\* C8 as stated: normalize of the phrase in curly double quotes, with
\* capitals and a doubled space, equals normalize of the lowercase phrase in
\* ASCII single quotes.
C8_Original ==
    (nPc = "once" /\ nIn = ExCurlyHello) => nOut = NormForMatch(ExSingleHello)

\* C8 as amended: normalize is insensitive to case, to the width of
\* whitespace runs and to the typographic or ASCII form of a quote of one
\* kind: the phrase in curly double quotes normalises like the lowercase
\* phrase in ASCII double quotes, and every input normalises like itself
\* with curly quotes straightened, capitals lowered and spaces doubled.
C8_QuoteStyle ==
    nPc \in {"once", "twice"} =>
        /\ nIn = ExCurlyHello => nOut = NormForMatch(ExDoubleHello)
        /\ nOut = NormForMatch(Plain(nIn))
        /\ nOut = NormForMatch(DoubleSpaces(nIn))

\* the phrase of the example, normalised
C8_Witness == nPc = "once" /\ nIn = ExCurlyHello /\ nOut = ExDoubleHello

\* the three line-ending forms
EOLs == {<<"LF">>, <<"CR", "LF">>, <<"CR">>}

\* s is words joined by hyphen + line ending, with at least one such split
IsSplitText(s) ==
    /\ s # <<>>
    /\ IsWord(s[1]) /\ IsWord(s[Len(s)])
    /\ \E i \in 1..Len(s) : IsHyphen(s[i])
    /\ \A i \in 1..Len(s) :
         \/ IsWord(s[i])
         \/ /\ IsHyphen(s[i])
            /\ i > 1 /\ IsWord(s[i - 1])
            /\ \E eol \in EOLs :
                  /\ i + Len(eol) + 1 <= Len(s)
                  /\ SubSeq(s, i + 1, i + Len(eol)) = eol
                  /\ IsWord(s[i + Len(eol) + 1])
         \/ /\ s[i] = "CR"
            /\ i > 1 /\ IsHyphen(s[i - 1])
         \/ /\ s[i] = "LF"
            /\ i > 1
            /\ \/ IsHyphen(s[i - 1])
               \/ s[i - 1] = "CR" /\ i > 2 /\ IsHyphen(s[i - 2])

\* the words of a split text, joined
WordChars(s) == SelectSeq(s, IsWord)

\* C9: hyphenated line-break joining: a text made of words split by a
\* hyphen and a line ending (\n, \r\n or \r), once or several times in a
\* row, normalises like the words joined without the hyphens.
C9_HyphenJoin ==
    (nPc = "once" /\ IsSplitText(nIn)) => nOut = NormForMatch(WordChars(nIn))

-----------------------------------------------------------------------------
(* Properties of the resolver, under SpecResolve *)

\* the quote is not None and not the empty string
NonEmptyQuote == quote # NoneStr /\ quote # <<>>

\* a quote was supplied: not None, not empty, not whitespace only
Supplied == quote # NoneStr /\ \E i \in 1..Len(quote) : ~IsSpace(quote[i])

\* normalize(quote)
NQuote == NormForMatch(OrEmpty(quote))

ChunkIdx == 1..Len(pack.text_chunks)
TableIdx == 1..Len(pack.tables)

\* normalize(quote) is a substring of the normalised text of chunk i / table j
ChunkHas(i) == IsSubstr(NQuote, NormForMatch(pack.text_chunks[i].text))
TableHas(j) == IsSubstr(NQuote, NormForMatch(OrEmpty(pack.tables[j].text_fallback)))

\* the pair that names chunk i / table j
ChunkPair(i) == [found |-> TRUE, kind |-> "Text",
                 key |-> pack.text_chunks[i].chunk_id, page |-> pack.text_chunks[i].page]
TablePair(j) == [found |-> TRUE, kind |-> "Table",
                 key |-> pack.tables[j].table_id, page |-> pack.tables[j].page]

\* the claimed id holds the word kind, whitespace and the word key
Mentions(kind, key) ==
    LET e == OrEmpty(evidence_id)
    IN  \E i, k \in 1..Len(e) :
          /\ i + 1 < k
          /\ e[i] = kind /\ e[k] = key
          /\ \A m \in (i + 1)..(k - 1) : IsSpace(e[m])
          /\ (i = 1 \/ IsSpace(e[i - 1]))
          /\ (k = Len(e) \/ IsSpace(e[k + 1]))

\* the chunks / tables the claimed id names
NamedChunks == {i \in ChunkIdx : Mentions("Text", pack.text_chunks[i].chunk_id)}
NamedTables == {j \in TableIdx : Mentions("Table", pack.tables[j].table_id)}

\* the claimed id names a block that contains the quote
FastHit == (\E i \in NamedChunks : ChunkHas(i)) \/ (\E j \in NamedTables : TableHas(j))

\* the returned pair names a block that contains the quote, with its page
ResultHoldsQuote ==
    \/ \E i \in ChunkIdx : result = ChunkPair(i) /\ ChunkHas(i)
    \/ \E j \in TableIdx : result = TablePair(j) /\ TableHas(j)

\* C1: resolver soundness: whenever a call with a non-empty quote returns
\* an id, the normalised quote is a substring of the normalised text of the
\* block that id names, and the page returned is that block's page.
C1_Soundness ==
    (rPc = "returned" /\ NonEmptyQuote /\ result.found) => ResultHoldsQuote

\* a well-formed id naming a chunk that lacks the quote; another block is returned
C1_Witness ==
    /\ rPc = "returned" /\ Supplied /\ result.found
    /\ \E i \in NamedChunks : ~ChunkHas(i) /\ result # ChunkPair(i)

\* C2: fast path: a claimed id of the form "Text <key>" or "Table <key>"
\* naming an existing chunk or table whose normalised text contains the
\* normalised quote resolves to exactly that block and its page, earlier
\* blocks holding the quote notwithstanding.
C2_FastPath ==
    (/\ rPc = "returned"
     /\ Len(evidence_id) = 3
     /\ evidence_id[2] = "SP"
     /\ evidence_id[3] \in KeyPattern) =>
        /\ evidence_id[1] = "Text" =>
              \A i \in ChunkIdx :
                 (pack.text_chunks[i].chunk_id = evidence_id[3] /\ ChunkHas(i))
                    => result = ChunkPair(i)
        /\ evidence_id[1] = "Table" =>
              \A j \in TableIdx :
                 (pack.tables[j].table_id = evidence_id[3] /\ TableHas(j))
                    => result = TablePair(j)

\* "Text p03_c01" with a quote that the earlier chunk p01_c01 holds too
C2_Witness ==
    /\ rPc = "returned" /\ Supplied
    /\ evidence_id = <<"Text", "SP", "p03_c01">>
    /\ Len(pack.text_chunks) >= 2 /\ ChunkHas(1) /\ ChunkHas(2)
    /\ result = [found |-> TRUE, kind |-> "Text", key |-> "p03_c01", page |-> 3]

\* C3: repair of a wrong id: with a quote supplied, when the claimed id is
\* missing, malformed, names no block or names a block without the quote,
\* and some chunk or table holds the quote, the call returns the id and page
\* of a block that holds the quote.
C3_Repair ==
    (/\ rPc = "returned" /\ Supplied
     /\ ~FastHit
     /\ \/ \E i \in ChunkIdx : ChunkHas(i)
        \/ \E j \in TableIdx : TableHas(j)) =>
        result.found /\ ResultHoldsQuote

\* "Text p99_c99" with a quote found in p03_c01 only
C3_Witness ==
    /\ rPc = "returned" /\ Supplied
    /\ evidence_id = <<"Text", "SP", "p99_c99">>
    /\ Len(pack.text_chunks) >= 2 /\ ~ChunkHas(1)
    /\ result = [found |-> TRUE, kind |-> "Text", key |-> "p03_c01", page |-> 3]

\* C4: unverifiable claim: whatever the claimed id, a non-empty quote whose
\* normalised form is in no chunk and in no table gives (None, None).
C4_Unverifiable ==
    (/\ rPc = "returned" /\ NonEmptyQuote
     /\ \A i \in ChunkIdx : ~ChunkHas(i)
     /\ \A j \in TableIdx : ~TableHas(j)) =>
        result = NoneNone

\* a well-formed id of an existing table, and a quote found nowhere
C4_Witness ==
    /\ rPc = "returned" /\ Supplied
    /\ NamedTables # {}
    /\ pack.text_chunks # <<>>
    /\ \A i \in ChunkIdx : ~ChunkHas(i)
    /\ \A j \in TableIdx : ~TableHas(j)
    /\ result = NoneNone

C6_FirstMatch ==
    (rPc = "returned" /\ Supplied /\ ~FastHit) =>
        LET ch == {i \in ChunkIdx : ChunkHas(i)}
            tb == {j \in TableIdx : TableHas(j)}
        IN  /\ ch # {} => \E i \in ch : result = ChunkPair(i) /\ \A k \in ch : i <= k
            /\ (ch = {} /\ tb # {}) =>
                  \E j \in tb : result = TablePair(j) /\ \A k \in tb : j <= k
            /\ (result.found /\ result.kind = "Table") => ch = {}

\* two chunks and a table hold the quote; the first chunk is returned
C6_Witness ==
    /\ rPc = "returned" /\ Supplied /\ ~FastHit
    /\ Len(pack.text_chunks) >= 2 /\ ChunkHas(1) /\ ChunkHas(2)
    /\ \E j \in TableIdx : TableHas(j)
    /\ result = ChunkPair(1)

-----------------------------------------------------------------------------
(* Properties of concurrent resolver calls, under SpecConc *)

\* a call that has returned holds the pair the same call gives when run
\* alone on the pack
ReturnsAsAlone ==
    \A c \in Callers :
        calls[c].pc = "done" =>
            calls[c].ret = resolve_evidence_id_and_page(pack, calls[c].evidence_id,
                                                        calls[c].quote)

\* C10: resolver calls are pure reads, safe to run concurrently: under any
\* interleaving of the steps of the calls, every call returns the pair it
\* returns when run alone, and no step of any call changes the pack's chunks
\* and tables.
C10_Concurrent == [](ReturnsAsAlone) /\ [][pack' = pack]_vars

\* two calls with different quotes, both past their repair step, one returned
\* with a repaired id while the other is still scanning
C10_Witness ==
    \E c, d \in Callers :
        /\ c # d
        /\ calls[c].pc = "done" /\ calls[c].ret.found /\ calls[c].nq # <<>>
        /\ calls[d].pc \in {"scan_chunks", "scan_tables"}
        /\ calls[d].nq # calls[c].nq

-----------------------------------------------------------------------------
(* Properties of the table grid cleaner and of the extraction, under      *)
(* SpecTables                                                              *)

\* every row of rs has as many cells as h, and h is empty only if rs is
Rectangular(h, rs) ==
    /\ \A k \in 1..Len(rs) : Len(rs[k]) = Len(h)
    /\ h = <<>> => rs = <<>>

\* the table appended to tables_out last
LastTable == tables_out[Len(tables_out)]

\* C11: the header and body the grid cleaner returns are rectangular for
\* every raw grid, and so is every table the extraction emits after its
\* multi-page handling; a header is empty only where the body is empty.
C11_Rectangular ==
    /\ gPc = "fixed" => Rectangular(gHeader, gRows)
    /\ \A k \in 1..Len(tables_out) :
          Rectangular(tables_out[k].header, tables_out[k].rows)

\* a ragged grid was cleaned, its inferred header became the first body row
\* under the header of the page before, and the table was emitted
C11_Witness ==
    /\ xLast.case1 /\ ~xLast.stitch /\ xLast.emit
    /\ \E k \in 1..Len(gIn) : Len(gIn[k]) # Len(gIn[1])
    /\ Len(LastTable.rows) = Len(gRows) + 1

CellActionOwner == CellAction \o <<"SP">> \o CellOwner
CellImplemented == CellImplemente \o CellD

\* r is a data row of three filled cells
IsFullRow(r) ==
    /\ r # NoneRow /\ Len(r) = 3
    /\ \A i \in 1..3 : NormCell(r[i]) # <<>>

\* the cleaner was called on the three header fragments above two data rows
SplitHeaderCleaned ==
    /\ gPc = "fixed" /\ Len(gIn) = 5
    /\ SubSeq(gIn, 1, 3) = <<RowAction, RowOwner, RowDDate>>
    /\ IsFullRow(gIn[4]) /\ IsFullRow(gIn[5])

\* C12 as stated: the header returned is Action, Implemented, Date and
\* the body is two rows of three cells.
C12_Original ==
    SplitHeaderCleaned =>
        /\ gHeader = <<CellAction, CellImplemented, CellDate>>
        /\ Len(gRows) = 2
        /\ \A k \in 1..2 : Len(gRows[k]) = 3

\* C12: for the header fragments Action,-,- / Owner,Implemente,- / -,d,Date
\* above two data rows of three filled cells, the cleaner returns the header
\* "Action Owner", "Implemented", "Date": the fragments of a column are
\* joined with spaces and the word split is repaired; the body is the two
\* data rows, normalised.
C12_SplitHeader ==
    SplitHeaderCleaned =>
        /\ gHeader = <<CellActionOwner, CellImplemented, CellDate>>
        /\ gRows = <<[i \in 1..3 |-> NormCell(gIn[4][i])],
                     [i \in 1..3 |-> NormCell(gIn[5][i])]>>

C12_Witness ==
    /\ SplitHeaderCleaned
    /\ gIn = ExSplitHeader
    /\ gHeader[2] = CellImplemented

\* the one row of grid g is a row that the cleaner keeps: not None, not
\* empty, and less than 85% of its normalised cells empty
OneRowSurvives(g) ==
    /\ Len(OrEmptyGrid(g)) = 1
    /\ g[1] # NoneRow /\ g[1] # <<>>
    /\ 100 * Cardinality({i \in 1..Len(g[1]) : NormCell(g[1][i]) = <<>>}) < 85 * Len(g[1])

C13_ShortGridCleaned ==
    gPc = "fixed" /\ Len(OrEmptyGrid(gIn)) < 2 =>
        /\ gRows = <<>>
        /\ gHeader = <<>> <=> ~OneRowSurvives(gIn)

\* the extraction at a table whose grid has fewer than 2 rows
C13_ShortGridSkipped ==
    /\ xNext \in 1..Len(doc)
    /\ ~doc[xNext].raises
    /\ Len(OrEmptyGrid(doc[xNext].grid)) < 2
    => /\ tables_out' = tables_out
       /\ UNCHANGED <<gIn, gHeader, gRows, gPc, last_header_by_sig, last_row_by_sig>>

IsStrRow(r) == \A i \in 1..Len(r) : r[i] # NoneStr

\* the rows of g the cleaner works on: normalised, padded, the near-empty
\* ones dropped
Surviving(g) == DropNearEmptyRows(Rectangularise(NormaliseRows(g)), 85)

\* C14: for every grid of ragged rows, None rows, empty rows and None or
\* empty cells the cleaner returns a header and a body of str cells, no None
\* reaching a str method: the empty table where no row survives, and where
\* the first surviving row is no header fragment that row as the header and
\* the rows after it, stitched, as the body.
C14_NeverRaises ==
    gPc = "fixed" =>
        /\ IsStrRow(gHeader)
        /\ \A k \in 1..Len(gRows) : IsStrRow(gRows[k])
        /\ \A rows \in {Surviving(gIn)} :
              /\ rows = <<>> => gHeader = <<>> /\ gRows = <<>>
              /\ rows # <<>> /\ ~LooksLikeHeaderFragmentRow(rows[1]) =>
                    /\ gHeader = rows[1]
                    /\ gRows = DropNearEmptyRows(
                                   MergeContinuationRows(Tail(rows), 2), 90)

C14_Witness ==
    /\ gPc = "fixed"
    /\ gIn = <<NoneRow, RowData, RowNones>>
    /\ gHeader = RowData
    /\ gRows = <<<<<<>>, CellAB, <<>>>>>>

\* the rows of sIn that start an output row: the first row, and every row
\* of more than 2 filled cells
Starts == {k \in 1..Len(sIn) : k = 1 \/ Filled(sIn[k]) > 2}

\* the output row which row k of sIn goes into
GroupOf(k) == Cardinality({m \in Starts : m <= k})

\* the cells of column i of the rows of sIn that go into output row j, in
\* input order
GroupColumn(j, i) ==
    LET ks == {k \in 1..Len(sIn) : GroupOf(k) = j}
        lo == CHOOSE k \in ks : \A m \in ks : k <= m
    IN  [n \in 1..Cardinality(ks) |-> sIn[lo + n - 1][i]]

\* C15: a body row of at most 2 filled cells that has a row before it is
\* merged into the row before it, column by column; the output is no longer
\* than the input, and every output cell is the filled cells of its column,
\* over the rows merged into its row, joined with spaces in input order, so
\* that every filled input cell is contained in its column of the output.
C15_Stitching ==
    sPc = "out" =>
        /\ Len(sOut) <= Len(sIn)
        /\ Len(sOut) = Cardinality(Starts)
        /\ \A j \in 1..Len(sOut) : \A i \in 1..Len(sOut[j]) :
              sOut[j][i] = JoinSp(NonEmptyCells(GroupColumn(j, i)), 1)
        /\ \A k \in 1..Len(sIn) : \A i \in 1..Len(sIn[k]) :
              sIn[k][i] # <<>> => IsSubstr(sIn[k][i], sOut[GroupOf(k)][i])

\* a row of at most 2 filled cells was merged into a row with a filled cell
\* in the same column
C15_Witness ==
    /\ sPc = "out"
    /\ Len(sOut) < Len(sIn)
    /\ \E k \in 2..Len(sIn) : \E i \in 1..Len(sIn[k]) :
          /\ Filled(sIn[k]) <= 2
          /\ sIn[k][i] # <<>> /\ sIn[k - 1][i] # <<>>

\* the step of the extraction that handles a table: its grid was read and
\* has 2 rows or more
HandlesTable ==
    /\ xNext \in 1..Len(doc)
    /\ xNext' = xNext + 1
    /\ ~doc[xNext].raises
    /\ Len(OrEmptyGrid(doc[xNext].grid)) >= 2

\* emitted tables a and b have one signature and similar headers
SameLogicalTable(a, b) ==
    /\ TableSignature(Len(a.header), a.bbox) = TableSignature(Len(b.header), b.bbox)
    /\ HeadersSimilar(a.header, b.header)

C16_SameTableStep ==
    LET sig == TableSignature(Len(gHeader'), doc[xNext].bbox)
    IN  /\ HandlesTable
        /\ gHeader' # <<>>
        /\ sig \in DOMAIN last_header_by_sig
        /\ HeadersSimilar(gHeader', last_header_by_sig[sig])
        => /\ Len(tables_out') = Len(tables_out) + 1
           /\ SubSeq(tables_out', 1, Len(tables_out)) = tables_out
           /\ tables_out'[Len(tables_out')].page = DocPageAt[xNext]
           /\ tables_out'[Len(tables_out')].header = last_header_by_sig[sig]
           /\ \A r \in 1..Len(tables_out'[Len(tables_out')].rows) :
                 \E m \in 1..Len(gRows') : tables_out'[Len(tables_out')].rows[r] = gRows'[m]
           /\ last_header_by_sig'[sig] = last_header_by_sig[sig]

Restrict(d, sig) == [s \in DOMAIN d \cap {sig} |-> d[s]]

\* every entry of d other than that of sig is in e as it is in d, and e has
\* no entry that d has not, except that of sig
FrameOf(d, e, sig) ==
    /\ \A s \in DOMAIN d : s # sig => s \in DOMAIN e /\ e[s] = d[s]
    /\ DOMAIN e \subseteq DOMAIN d \cup {sig}

\* the table handled leaves the entries of the other signatures alone, and
\* what it emits is what it emits where there are no such entries
C17_Step ==
    HandlesTable =>
        \E alone \in {HandleTable(doc[xNext].grid, doc[xNext].bbox,
                                  Restrict(last_header_by_sig, xLast'.sig),
                                  Restrict(last_row_by_sig, xLast'.sig))} :
            /\ FrameOf(last_header_by_sig, last_header_by_sig', xLast'.sig)
            /\ FrameOf(last_row_by_sig, last_row_by_sig', xLast'.sig)
            /\ alone.emit = xLast'.emit
            /\ alone.emit =>
                  /\ tables_out'[Len(tables_out')].header = alone.header
                  /\ tables_out'[Len(tables_out')].rows = alone.rows
            /\ DictGet(last_header_by_sig', xLast'.sig) = DictGet(alone.last_header_by_sig, xLast'.sig)
            /\ DictGet(last_row_by_sig', xLast'.sig) = DictGet(alone.last_row_by_sig, xLast'.sig)

\* C17: handling a table of signature S neither reads nor changes the
\* remembered header or row of a signature other than S: those entries stay
\* as they are, and the header and rows emitted, and the entries remembered
\* for S, are the ones the table gets where nothing is remembered for any
\* other signature.
C17_Frame == [][C17_Step]_vars

\* a table was handled with the header of its own signature while a header
\* of another signature is remembered
C17_Witness ==
    /\ Cardinality(DOMAIN last_header_by_sig) >= 2
    /\ xLast.prev_header # <<>>
    /\ xLast.stitch

\* C18: the first row of a page's table, sparse and with a row remembered
\* for its signature, is merged into that row, and the row as merged is a
\* row of an emitted table, so that the continuation text is in the output.
C18_ContinuationKept ==
    xLast.stitch =>
        \E k \in 1..Len(tables_out) : \E r \in 1..Len(tables_out[k].rows) :
            tables_out[k].rows[r] = xLast.merged

\* the table handled last had a paragraph-like inferred header and a header
\* remembered for its signature
InferredParagraph ==
    /\ gPc = "fixed"
    /\ xLast.prev_header # <<>>
    /\ gHeader # <<>>
    /\ LooksLikeParagraphRow(gHeader)

\* C19 as stated: the table is emitted under the prior header with the
\* inferred header as its first row, ahead of the other rows of the page,
\* and the prior header stays the remembered one.
C19_Original ==
    InferredParagraph =>
        /\ LastTable.header = xLast.prev_header
        /\ LastTable.rows = <<gHeader>> \o gRows
        /\ last_header_by_sig[xLast.sig] = xLast.prev_header

\* C19: the table is emitted under the prior header, which stays the
\* remembered one.  The inferred header is the first row of the table, ahead
\* of the other rows of the page, unless it is similar to the prior header,
\* and then it is dropped as a repeated header, or it is sparse and a row is
\* remembered for the signature, and then it is taken as the continuation of
\* that row.  Where it is dropped, a sparse first row of the page is taken
\* as the continuation instead.
C19_InferredHeader ==
    InferredParagraph =>
        /\ LastTable.header = xLast.prev_header
        /\ last_header_by_sig[xLast.sig] = xLast.prev_header
        /\ LastTable.rows =
              IF HeadersSimilar(gHeader, xLast.prev_header)
              THEN (IF xLast.stitch THEN Tail(gRows) ELSE gRows)
              ELSE (IF xLast.stitch THEN gRows ELSE <<gHeader>> \o gRows)
        /\ xLast.stitch =>
              xLast.first = IF HeadersSimilar(gHeader, xLast.prev_header)
                            THEN gRows[1] ELSE gHeader

\* a paragraph-like inferred header became the first row of the table
C19_Witness ==
    /\ InferredParagraph
    /\ ~xLast.stitch
    /\ LastTable.rows = <<gHeader>> \o gRows
    /\ gRows # <<>>


\* the resolver returns (None, None) for item k of the reply
Unresolved(k) == ~ResolvedFor(pack, response.evidence[k]).found

\* C20 as stated: an item the resolver returns (None, None) for stays in the
\* returned evidence with the id, quote and evidence_type of the reply.
C20_Original ==
    aPc = "returned" =>
        \A k \in 1..Len(response.evidence) :
            Unresolved(k) =>
                /\ returned.uncertainty
                /\ Len(returned.evidence) = Len(response.evidence)
                /\ returned.evidence[k].id = response.evidence[k].id
                /\ returned.evidence[k].quote = response.evidence[k].quote
                /\ returned.evidence[k].evidence_type = response.evidence[k].evidence_type
                /\ returned.evidence[k].page = NoneNone.page

\* the dict returned has the uncertainty flag set where an item was not
\* resolved, and that item in its place with page None and the id, quote and
\* evidence_type of the reply stripped, None read as ""
C20_Returned ==
    aPc = "returned" =>
        /\ Len(returned.evidence) = Len(response.evidence)
        /\ \A k \in 1..Len(response.evidence) :
              /\ returned.evidence[k].quote = GetStripped(response.evidence[k].quote)
              /\ returned.evidence[k].evidence_type =
                     GetStripped(response.evidence[k].evidence_type)
              /\ Unresolved(k) =>
                    /\ returned.uncertainty
                    /\ returned.evidence[k].id = GetStripped(response.evidence[k].id)
                    /\ returned.evidence[k].page = NoneNone.page

\* no step of a run resets the flag, and the flag returned is the flag of
\* the dict
C20_NoReset ==
    /\ parsed.uncertainty => parsed'.uncertainty
    /\ aPc' = "returned" /\ aPc # "returned" => returned'.uncertainty = parsed.uncertainty
    /\ returned.uncertainty => returned'.uncertainty

\* a run that has not returned has a next statement to run: the guards, the
\* early return, the loop body or the loop's end of _add_pages_to_evidence,
\* the checks of D1, or the return
C20_Runs ==
    aPc # "returned" =>
        \/ aPc = "parsed" /\ agent # "D1"
        \/ EntersAddPages /\ parsed.evidence = <<>>
        \/ (EntersAddPages \/ aPc = "enriching") /\ aNext <= Len(parsed.evidence)
        \/ aPc = "enriching" /\ aNext > Len(parsed.evidence)
        \/ aPc = "enriched"
        \/ agent = "D1" /\ aPc = "checked"

\* C20: in each of D1, D2, D6, D7 and D8 a run on a reply whose evidence
\* items have str or None fields goes on to its return, no step raising;
\* for each item the resolver returns (None, None) for, the dict returned
\* has uncertainty True and the item at its place in the evidence, of the
\* same length and order, with page None and with its id, quote and
\* evidence_type stripped of surrounding whitespace (None or a missing key
\* as ""); uncertainty once True is True in every later step of the run and
\* in the dict returned.
C20_UnresolvedFlagged ==
    /\ [](C20_Returned /\ C20_Runs)
    /\ [][C20_NoReset]_vars

\* an agent with guards returned a reply that neither the model nor the
\* guards had marked uncertain, with a padded item the resolver returned
\* (None, None) for after an item it resolved
C20_Witness ==
    /\ aPc = "returned"
    /\ agent # "D1"
    /\ ~response.uncertainty
    /\ ~ApplyGuardsOf(agent, response).uncertainty
    /\ response.evidence = <<ItemRepaired, ItemPadded>>
    /\ Unresolved(2)
    /\ returned.uncertainty
    /\ returned.evidence[2].id # response.evidence[2].id

-----------------------------------------------------------------------------
(* Properties of the CSV writer, under SpecCsv *)

\* C21: CSV round-trip: for every header and rectangular body, whose cells
\* may hold commas, double quotes or newlines, the file _write_csv writes is
\* read back by a CSV reader as exactly the header followed by the rows, cell
\* by cell.
C21_RoundTrip ==
    wPc = "read" => wParsed = <<wHeader>> \o wRows

-----------------------------------------------------------------------------
(* Properties of the command line run, under SpecCli *)

\* C22: when --html-only is given, the run performs no ingest, no agent run
\* and no LaJ meta-evaluation, whatever other flags are given.
C22_HtmlOnly ==
    args.html_only => \A k \in 1..Len(ran) : ran[k] \notin {"ingest", "agents", "laj"}

\* C23: when --no-ingest is given, the ingest step is never executed, whatever
\* other flags are given and whether or not evidence_pack.json exists; a run
\* that needs a pack which is absent raises instead.
C23_NoIngest ==
    args.no_ingest =>
        /\ \A k \in 1..Len(ran) : ran[k] # "ingest"
        /\ (cPc \in {"packed", "agents", "laj", "done"} /\ loc.need_pack_obj)
               => loc.pack

-----------------------------------------------------------------------------
(* Properties of the header block, under SpecTables *)

\* more than 25% of the cells blank, the non-empty cells shorter than 28
\* characters on average, no digit in any cell
IsFragment(row) ==
    LET blank == {i \in 1..Len(row) : row[i] = <<>>}
        full  == {i \in 1..Len(row) : row[i] # <<>>}
    IN  /\ full # {}
        /\ 100 * Cardinality(blank) > 25 * Len(row)
        /\ SumLen(row, 1) < 28 * Cardinality(full)
        /\ \A i \in full : \A j \in 1..Len(row[i]) : row[i][j] \notin Digits

\* the length of the longest run of header fragments at the top of rows,
\* within the first 10 rows
TopRun(rows) ==
    CHOOSE k \in 0..10 :
        /\ k <= Len(rows)
        /\ \A i \in 1..k : IsFragment(rows[i])
        /\ k = 10 \/ k = Len(rows) \/ ~IsFragment(rows[k + 1])

\* the body made of the rows b: continuation rows stitched, then the rows at
\* least 90% empty dropped
BodyOf(b) == DropNearEmptyRows(MergeContinuationRows(b, 2), 90)

\* C24: after the near-empty rows are dropped, the header block is the
\* longest run of consecutive header fragments (more than 25% blank cells,
\* average non-empty cell length below 28, no digit) from the top, within the
\* first 10 rows, and is merged into the header; the body is made of every
\* row after that run, in their order; where row 0 is no header fragment the
\* header is row 0 unchanged and the body is made of rows 1..n.
C24_HeaderBlock ==
    gPc = "fixed" =>
        \A rows \in {Surviving(gIn)} :
            rows # <<>> =>
                \A k \in {TopRun(rows)} :
                    /\ k > 0 =>
                          /\ gHeader = MergeRowsColumnwise(SubSeq(rows, 1, k))
                          /\ gRows = BodyOf(SubSeq(rows, k + 1, Len(rows)))
                    /\ k = 0 =>
                          /\ gHeader = rows[1]
                          /\ gRows = BodyOf(SubSeq(rows, 2, Len(rows)))

\* eleven header fragments at the top: the block is the first ten, and the
\* eleventh is the first row of the body
C24_Witness ==
    /\ gPc = "fixed"
    /\ Len(Surviving(gIn)) = 12
    /\ TopRun(Surviving(gIn)) = 10
    /\ IsFragment(Surviving(gIn)[11])
    /\ gRows = <<RowOwner, RowData>>

-----------------------------------------------------------------------------
(* The bare form of a claimed id, under SpecResolve *)

\* C25: a claimed id that is the bare id of an existing chunk or table, with
\* no "Text" or "Table" before it, given with no quote, resolves to the
\* canonical id and the page of that block.
C25_BareId ==
    (/\ rPc = "returned"
     /\ evidence_id # NoneStr /\ Len(evidence_id) = 1
     /\ ~Supplied) =>
        /\ \A i \in ChunkIdx :
              pack.text_chunks[i].chunk_id = evidence_id[1] => result = ChunkPair(i)
        /\ \A j \in TableIdx :
              pack.tables[j].table_id = evidence_id[1] => result = TablePair(j)

-----------------------------------------------------------------------------
(* The word-wrap repair of the merged header, under SpecTables *)

\* the index of the last space of m, or 0
LastSpace(m) ==
    IF \E i \in 1..Len(m) : m[i] = "SP"
    THEN CHOOSE i \in 1..Len(m) :
             m[i] = "SP" /\ \A j \in (i + 1)..Len(m) : m[j] # "SP"
    ELSE 0

\* m with its trailing token joined to the token before it, where that
\* trailing token is one or two lowercase letters
RejoinTrailing(m) ==
    LET p == LastSpace(m)
        n == Len(m) - p
    IN  IF /\ p > 1
           /\ n \in {1, 2}
           /\ \A j \in (p + 1)..Len(m) : m[j] \in LowerLetters
        THEN SubSeq(m, 1, p - 1) \o SubSeq(m, p + 1, Len(m))
        ELSE m

\* the fragments of column ci of the header block, joined by single spaces
JoinedFragments(block, ci) ==
    Strip(CollapseWs(MergeColumn(block, ci, Len(block))))

\* C26: the word-wrap repair of a merged header cell rejoins only a trailing
\* fragment of one or two lowercase letters to the token before it; every
\* other space of the cell is kept, the spaces around a word of one or two
\* lowercase letters that is not the trailing token included, and a cell
\* with no such trailing fragment is returned unchanged (cells with no
\* hyphen, which the hyphenation repair leaves alone).
C26_TrailingOnly ==
    gPc = "fixed" =>
        \A rows \in {Surviving(gIn)} :
            rows # <<>> =>
                \A k \in {TopRun(rows)} :
                    k > 0 =>
                        \A ci \in 1..Len(gHeader) :
                            \A m \in {JoinedFragments(SubSeq(rows, 1, k), ci)} :
                                (\A j \in 1..Len(m) : m[j] # "HY") =>
                                    gHeader[ci] \in {m, RejoinTrailing(m)}

-----------------------------------------------------------------------------
(* Continuation rows of the body, under SpecTables *)

\* every cell of the row is non-empty
AllFilled(r) == r # <<>> /\ \A i \in 1..Len(r) : r[i] # <<>>

\* C27: a body row whose cells are all non-empty is never merged into the
\* row before it, whatever the number of columns: a table whose body rows
\* are all fully filled keeps one output body row for each of them.
C27_FullRowsKept ==
    gPc = "fixed" =>
        \A rows \in {Surviving(gIn)} :
            rows # <<>> =>
                \A k \in {TopRun(rows)} :
                    \A body \in {SubSeq(rows, (IF k > 0 THEN k ELSE 1) + 1, Len(rows))} :
                        (\A n \in 1..Len(body) : AllFilled(body[n])) => gRows = body

-----------------------------------------------------------------------------
(* The content the cleaner keeps, under SpecTables *)

\* the normalised, padded rows of the grid, before any row is dropped
Padded(g) == Rectangularise(NormaliseRows(g))

\* less than 85% of the cells of the row are empty
Under85(r) ==
    r # <<>> /\ 100 * Cardinality({i \in 1..Len(r) : r[i] = <<>>}) < 85 * Len(r)

\* some cell of the header or of the body holds c
Kept(c) ==
    \/ \E i \in 1..Len(gHeader) : IsSubstr(c, gHeader[i])
    \/ \E n \in 1..Len(gRows) : \E i \in 1..Len(gRows[n]) : IsSubstr(c, gRows[n][i])

\* s without its whitespace and its hyphens
RECURSIVE Squeeze(_)
Squeeze(s) ==
    IF s = <<>> THEN <<>>
    ELSE (IF IsSpace(Head(s)) \/ Head(s) = "HY" THEN <<>> ELSE <<Head(s)>>)
             \o Squeeze(Tail(s))

\* C28 as claimed: every non-empty normalised cell of the input is contained
\* in some header or body cell of the output, and the rows that are dropped
\* carry no non-empty cell.
C28_Original ==
    gPc = "fixed" =>
        \A rows \in {Padded(gIn)} :
            \A n \in 1..Len(rows) : \A i \in 1..Len(rows[n]) :
                rows[n][i] # <<>> => Kept(rows[n][i])

\* C28: the rows the cleaner works on are the rows of the grid that are
\* less than 85% empty; every non-empty normalised cell of such a row is
\* contained in a cell of its column in the output: a cell of the header
\* block in the header cell, whitespace and hyphens disregarded (row 0
\* unchanged where there is no block), a cell of a later row as it is in a
\* body cell; the drop after stitching removes no row.
C28_ContentKept ==
    gPc = "fixed" =>
        \A rows \in {SelectSeq(Padded(gIn), Under85)} :
            /\ rows = <<>> => gHeader = <<>> /\ gRows = <<>>
            /\ rows # <<>> =>
                  \A k \in {TopRun(rows)} :
                      /\ k = 0 => gHeader = rows[1]
                      /\ \A n \in 1..k : \A i \in 1..Len(rows[n]) :
                            IsSubstr(Squeeze(rows[n][i]), Squeeze(gHeader[i]))
                      /\ \A n \in ((IF k > 0 THEN k ELSE 1) + 1)..Len(rows) :
                            \A i \in 1..Len(rows[n]) :
                                \E m \in 1..Len(gRows) : IsSubstr(rows[n][i], gRows[m][i])
                      /\ gRows = MergeContinuationRows(
                                     SubSeq(rows, (IF k > 0 THEN k ELSE 1) + 1, Len(rows)), 2)

\* a table of seven columns: the row that holds one filled cell is dropped,
\* and its content with it
C28_Witness ==
    /\ gPc = "fixed"
    /\ gIn = <<RowWideFull, RowWideOne, RowWideFull>>
    /\ gHeader = RowWideFull
    /\ gRows = <<RowWideFull>>
    /\ ~Kept(<<"c">>)

-----------------------------------------------------------------------------
(* The pages of a continuation, under SpecTables *)

\* a table of the page before the page of the table handled was emitted with
\* the signature sig
OnPageBefore(sig) ==
    \E j \in 1..Len(tables_out) :
        /\ tables_out[j].page = DocPageAt[xNext] - 1
        /\ TableSignature(Len(tables_out[j].header), tables_out[j].bbox) = sig

\* the table handled has no table of its signature on the page before its
\* own: it is emitted as it was cleaned, no remembered header or row used
C29_Step ==
    (HandlesTable /\ ~OnPageBefore(xLast'.sig)) =>
        /\ ~xLast'.case1 /\ ~xLast'.case2 /\ ~xLast'.stitch
        /\ xLast'.emit =>
              /\ tables_out'[Len(tables_out')].header = gHeader'
              /\ tables_out'[Len(tables_out')].rows = gRows'

\* C29: header reuse, repeated-header dropping and sparse-first-row
\* stitching are applied to a table only relative to a table of the same
\* signature on the page immediately before; after a table of the same
\* signature on the same page, or on a page further back, the table is
\* handled as a table of its own.
C29_PageAdjacent == [][C29_Step]_vars

=============================================================================
